---- MODULE Spec2Model ----
(***************************************************************************)
(* Position/risk state machines of the ranger trading bot:                 *)
(*   - CapitulationStrategy::run_cycle  (src/bot/capitulation_phase)       *)
(*   - Bot::run_cycle and its close / partial-profit helpers (src/bot)     *)
(*   - Helper money math and the ladder builder (src/helper)               *)
(*   - ZoneGuard (src/bot/zones)                                           *)
(*                                                                         *)
(* Numbers.  Prices are whole USD.  Quantities are counted in 10^-6 BTC    *)
(* and money in 10^-6 USD (QtyScale), so that price * quantity is exact;   *)
(* a Decimal division is truncated at that precision, one digit finer      *)
(* than the 5-digit size precision of the ladder builder.                  *)
(* Option<T> is a sequence: None is << >>, Some(x) is << x >>.             *)
(***************************************************************************)
EXTENDS Integers, Sequences, FiniteSets, TLC

VARIABLES
    now,                 \* wall clock, hours since the process started
    last_pr,             \* price of the tick being processed (ticker.last_pr)
    next_id,             \* source of fresh position ids (Uuid::new_v4)
    exchange_calls,      \* orders handed to the exchange during the last cycle
    capitulation_state,  \* Bot.capitulation_state : CapitulationState
    cap_store,           \* store key CAPITULATION_PHASE_STATE
    cap_closed,          \* store list CAPITULATION_PHASE_CLOSED_POSITIONS
    cap_result,          \* outcome of the last CapitulationStrategy::run_cycle
    step,                \* the operation performed last
    bot,                 \* the Bot's fields
    store,               \* the Bot's keys of the durable store
    closed_positions,    \* store list TRADING_BOT_CLOSE_POSITIONS
    bot_result,          \* outcome of the last Bot::run_cycle
    last_call,           \* the last direct call of a ZoneGuard or Helper function
    live                 \* start_live_trading: backoff_secs and the loop's position

capVars == <<capitulation_state, cap_store, cap_closed, cap_result>>
botVars == <<bot, store, closed_positions, bot_result>>
vars == <<now, last_pr, next_id, exchange_calls, step, last_call, live, capVars, botVars>>

----------------------------------------------------------------------------
(* Bounds of the model *)

MaxPositions == 2    \* positions each machine may open
MaxBotNow == 24      \* the clock of the Bot runs stops advancing here
MaxFaultyPositions == 1   \* positions opened when partial closes may fail
MaxClosed == 6       \* closed positions recorded when partial closes may fail
MaxJump == 1000      \* the feed moves the price by at most this much per tick
MaxCapital == 365    \* ticks are explored up to this capital (USD);
                     \* beyond it the widest explored price move leaves 32 bits

QtyScale == 10 ^ 6   \* model units per BTC and per USD

None == << >>
Some(x) == << x >>
IsSome(o) == Len(o) = 1
Unwrap(o) == o[1]
UnwrapOr(o, d) == IF Len(o) = 1 THEN o[1] ELSE d

Min(a, b) == IF a <= b THEN a ELSE b
Abs(a) == IF a < 0 THEN 0 - a ELSE a

\* floor(a * b / c) and (a * b) mod c for a >= 0, b >= 0, c > 0, computed
\* without forming a * b
MulDiv(a, b, c) == (a \div c) * b + (((a % c) * b) \div c)
MulMod(a, b, c) == ((a % c) * b) % c

----------------------------------------------------------------------------
(* Helper: money math *)

\* Helper::position_size is margin * leverage; contract_amount divides it by
\* the entry price.  The quotient is truncated at QtyScale.
contract_amount(entry_price, margin, leverage) ==
    MulDiv(margin, leverage, entry_price)

\* (notional / entry_price).round_dp(5): nearest multiple of 10 model units,
\* midpoint to even (rust_decimal round_dp).
total_size(entry_price, margin, leverage) ==
    LET q == MulDiv(margin, leverage, entry_price)
        r == MulMod(margin, leverage, entry_price)
        t == q \div 10
        d == q % 10
        up == \/ d > 5
              \/ d = 5 /\ r > 0
              \/ d = 5 /\ r = 0 /\ t % 2 = 1
    IN  (IF up THEN t + 1 ELSE t) * 10

\* (total_size * fraction).round_dp_with_strategy(5, ToZero), fraction in %
raw_size(total, fraction) == ((((total \div 10) * fraction)) \div 100) * 10

fractions == <<20, 30, 30, 20>>

\* the variant whose first target is the entry price
tp_prices_from_entry(ranger_price_difference, entry_price, tp_counts, pos) ==
    IF pos = "Long"
    THEN [i \in 1..tp_counts |-> entry_price + (i - 1) * ranger_price_difference]
    ELSE IF pos = "Short"
    THEN [i \in 1..tp_counts |-> entry_price - (i - 1) * ranger_price_difference]
    ELSE << >>

\* one price per count for a Long or a Short, nothing is pushed for Flat
tp_prices(ranger_price_difference, entry_price, tp_counts, pos) ==
    IF pos = "Long"
    THEN [i \in 1..tp_counts |-> entry_price + i * ranger_price_difference]
    ELSE IF pos = "Short"
    THEN [i \in 1..tp_counts |-> entry_price - i * ranger_price_difference]
    ELSE << >>

build_profit_targets(entry_price, margin, leverage, ranger_price_difference, pos) ==
    LET prices == tp_prices(ranger_price_difference, entry_price, 4, pos)
        total == total_size(entry_price, margin, leverage)
        raw(i) == raw_size(total, fractions[i])
        size(i) == IF i = 4 THEN total - raw(1) - raw(2) - raw(3) ELSE raw(i)
        next_sl(i) == IF i = 4 THEN None
                      ELSE IF i = 1 THEN Some(entry_price)
                      ELSE Some(prices[i - 1])
        rung(i) == [target_price |-> prices[i], fraction |-> fractions[i],
                    size_btc |-> size(i), sl |-> next_sl(i)]
    IN  [i \in 1..Len(prices) |-> rung(i)]

----------------------------------------------------------------------------
(* Exchange: what an order request carries *)

ExchangeOutcomes == {"ok", "rejected", "error"}

\* FuturesCall::new_futures_call: size is position_size
new_futures_call(open_position) ==
    [kind |-> "open", id |-> open_position.id, side |-> open_position.pos,
     size |-> open_position.position_size]

\* FuturesCall::modify_futures_order: size is position_size, not quantity
modify_futures_order(open_position) ==
    [kind |-> "close", id |-> open_position.id, side |-> open_position.pos,
     size |-> open_position.position_size]

\* order id carried by the PlaceOrderData of a call that returned Ok
place_order_id(outcome) == IF outcome = "ok" THEN "order" ELSE "Failed to place order"
modify_order_id(outcome) == IF outcome = "ok" THEN "order" ELSE "Failed to modify order"

----------------------------------------------------------------------------
(* Capitulation strategy *)

Complete == 36
CapitulationPhase == 1..36
strategy_leverage == 35
CapFloor == 60 * QtyScale
CapStart == 200 * QtyScale
CapStep == 500
CooldownHours == 4
ClockStep == CooldownHours   \* hours per clock advance
MaxNow == CooldownHours      \* the capitulation clock runs until a cooldown has elapsed

\* CapitulationStrategy::get_trade_params: <<entry, stop, take-profit>>
trade_params ==
    <<  <<108405, 108575, 107535>>, <<107405, 107575, 104535>>,
        <<104405, 104575, 100535>>, <<100405, 100575, 98535>>,
        <<98405, 98575, 96535>>,    <<96405, 96575, 92535>>,
        <<94405, 94575, 92535>>,    <<92405, 92575, 90535>>,
        <<90405, 90575, 88435>>,    <<88405, 88575, 86405>>,
        <<86405, 86575, 84405>>,    <<84405, 84575, 82405>>,
        <<82405, 82575, 80405>>,    <<80405, 80575, 78405>>,
        <<78405, 78575, 76405>>,    <<76405, 76575, 74405>>,
        <<74405, 74575, 72405>>,    <<72405, 72575, 70405>>,
        <<70405, 70575, 68405>>,    <<68405, 68575, 66405>>,
        <<66405, 66575, 64405>>,    <<64405, 64575, 62405>>,
        <<62405, 62575, 60405>>,    <<60405, 60575, 58405>>,
        <<58405, 58575, 56405>>,    <<56405, 56575, 54405>>,
        <<54405, 54575, 52405>>,    <<52405, 52575, 50405>>,
        <<50405, 50575, 48405>>,    <<48405, 48575, 46405>>,
        <<46405, 46575, 44405>>,    <<44405, 44575, 42405>>,
        <<42405, 42575, 40405>>,    <<40405, 40575, 38405>>,
        <<38405, 38575, 36405>> >>

get_trade_params(phase) == IF phase = Complete THEN None ELSE Some(trade_params[phase])

\* the phases run_cycle scans for an entry
all_phases == <<11, 16>>

\* price <= entry && price > entry - price * 0.00075
entry_match(price, entry) == price <= entry /\ 4003 * price > 4000 * entry

\* the match at the end of the take-profit branch
next_phase(phase) == IF phase <= 15 THEN phase + 1 ELSE Complete

DefaultCapitulationState ==
    [current_phase |-> 1, current_capital |-> CapStart, active_position |-> None,
     partial_profit_targets |-> << >>, cooldown_until |-> None]

CapResult(st, calls, closed, outcome) ==
    [state |-> st, calls |-> calls, closed |-> closed, outcome |-> outcome]

RemoveAt(s, i) == SubSeq(s, 1, i - 1) \o SubSeq(s, i + 1, Len(s))

cap_closed_position(pos, exit_price, pnl, quantity) ==
    [id |-> pos.id, side |-> "Short", entry_price |-> pos.entry_price,
     exit_price |-> exit_price, pnl |-> pnl, quantity |-> quantity, sl |-> pos.sl]

\* the entry that sizes from whatever capital is left
cap_entry_without_floor(st, phase, price, id, ex) ==
    LET tp == trade_params[phase]
        s2 == [st EXCEPT !.current_phase = phase]
        quantity == contract_amount(price, s2.current_capital, strategy_leverage)
        open_pos == [id |-> id, pos |-> "Short", entry_price |-> price,
                     position_size |-> quantity, tp |-> Some(tp[3]), sl |-> Some(tp[2]),
                     margin |-> Some(s2.current_capital), quantity |-> Some(quantity),
                     order_id |-> None]
        call == new_futures_call(open_pos)
    IN  IF ex = "error" THEN CapResult(s2, <<call>>, << >>, "entry_error")
        ELSE CapResult(
                [s2 EXCEPT !.active_position =
                               Some([open_pos EXCEPT !.order_id = Some(place_order_id(ex))]),
                           !.partial_profit_targets =
                               build_profit_targets(price, s2.current_capital, strategy_leverage,
                                                    CapStep, "Short")],
                <<call>>, << >>, "entry")

\* None arm: the first scanned phase whose entry matches is entered
cap_entry(st, phase, price, id, ex) ==
    LET tp == trade_params[phase]
        s1 == [st EXCEPT !.current_phase = phase]
        s2 == IF s1.current_capital <= CapFloor
              THEN [s1 EXCEPT !.current_capital = CapStart] ELSE s1
        quantity == contract_amount(price, s2.current_capital, strategy_leverage)
        open_pos == [id |-> id, pos |-> "Short", entry_price |-> price,
                     position_size |-> quantity, tp |-> Some(tp[3]), sl |-> Some(tp[2]),
                     margin |-> Some(s2.current_capital), quantity |-> Some(quantity),
                     order_id |-> None]
        call == new_futures_call(open_pos)
    IN  IF ex = "error" THEN CapResult(s2, <<call>>, << >>, "entry_error")
        ELSE CapResult(
                [s2 EXCEPT !.active_position =
                               Some([open_pos EXCEPT !.order_id = Some(place_order_id(ex))]),
                           !.partial_profit_targets =
                               build_profit_targets(price, s2.current_capital, strategy_leverage,
                                                    CapStep, "Short")],
                <<call>>, << >>, "entry")

cap_scan(st, price, id, ex) ==
    IF entry_match(price, trade_params[all_phases[1]][1])
    THEN cap_entry(st, all_phases[1], price, id, ex)
    ELSE IF entry_match(price, trade_params[all_phases[2]][1])
    THEN cap_entry(st, all_phases[2], price, id, ex)
    ELSE CapResult(st, << >>, << >>, "no_entry")

\* cap_stop_loss with the cooldown entered on every stop
cap_stop_loss_always_cooldown(st, pos, price, t, ex) ==
    LET call == modify_futures_order(pos)
        pnl == (pos.entry_price - price) * Unwrap(pos.quantity)
        closed == cap_closed_position(pos, price, pnl, pos.quantity)
    IN  IF ex = "error" THEN CapResult(st, <<call>>, << >>, "stop_error")
        ELSE CapResult(
                [st EXCEPT !.current_capital = @ + pnl,
                           !.active_position = None,
                           !.partial_profit_targets = << >>,
                           !.cooldown_until = Some(t + CooldownHours)],
                <<call>>, <<closed>>, "stop_loss")

\* price >= actual_sl: both arms of the inner if
cap_stop_loss(st, pos, price, t, ex) ==
    LET call == modify_futures_order(pos)
        pnl == (pos.entry_price - price) * Unwrap(pos.quantity)
        closed == cap_closed_position(pos, price, pnl, pos.quantity)
        no_partial == Len(st.partial_profit_targets) = 4
    IN  IF ex = "error" THEN CapResult(st, <<call>>, << >>, "stop_error")
        ELSE CapResult(
                [st EXCEPT !.current_capital = @ + pnl,
                           !.active_position = None,
                           !.partial_profit_targets = << >>,
                           !.cooldown_until = IF no_partial THEN Some(t + CooldownHours)
                                              ELSE None],
                <<call>>, <<closed>>, "stop_loss")

\* price <= tp
cap_take_profit(st, pos, price, ex) ==
    LET call == modify_futures_order(pos)
        pnl == (pos.entry_price - price) * Unwrap(pos.quantity)
        closed == cap_closed_position(pos, price, pnl, pos.quantity)
    IN  IF ex = "error" THEN CapResult(st, <<call>>, << >>, "tp_error")
        ELSE CapResult(
                [st EXCEPT !.current_capital = @ + pnl,
                           !.active_position = None,
                           !.partial_profit_targets = << >>,
                           !.current_phase = next_phase(@)],
                <<call>>, <<closed>>, "take_profit")

\* index of the first rung with price <= target_price, 0 if none
cap_hit_idx(targets, price) ==
    IF \E i \in 1..Len(targets) : price <= targets[i].target_price
    THEN CHOOSE i \in 1..Len(targets) :
            /\ price <= targets[i].target_price
            /\ \A j \in 1..(i - 1) : ~(price <= targets[j].target_price)
    ELSE 0

\* the partial-profit arm; the rung is removed before the order is sent
cap_partial(st, pos, price, ex) ==
    LET idx == cap_hit_idx(st.partial_profit_targets, price)
        target == st.partial_profit_targets[idx]
        s1 == [st EXCEPT !.partial_profit_targets = RemoveAt(@, idx)]
        qty_to_close == target.size_btc
        modified_pos == [pos EXCEPT !.quantity = Some(qty_to_close)]
        call == modify_futures_order(modified_pos)
        pnl == (pos.entry_price - target.target_price) * qty_to_close
        closed == cap_closed_position(pos, target.target_price, pnl, Some(qty_to_close))
        new_qty == Unwrap(pos.quantity) - qty_to_close
        active == [pos EXCEPT !.quantity = Some(new_qty), !.position_size = new_qty,
                              !.sl = IF IsSome(target.sl) THEN target.sl ELSE @]
    IN  IF Len(st.partial_profit_targets) = 0
        THEN CapResult([st EXCEPT !.active_position = None,
                                  !.partial_profit_targets = << >>],
                       << >>, << >>, "ladder_empty")
        ELSE IF idx = 0 THEN CapResult(st, << >>, << >>, "hold")
        ELSE IF ex = "error" THEN CapResult(s1, <<call>>, << >>, "partial_error")
        ELSE CapResult([s1 EXCEPT !.current_capital = @ + pnl,
                                  !.active_position = Some(active)],
                       <<call>>, <<closed>>, "partial")

\* the cycle that does not wait for the cooldown to elapse
cap_run_cycle_ignoring_cooldown(st, price, t, id, ex) ==
    IF st.current_phase = Complete THEN CapResult(st, << >>, << >>, "complete")
    ELSE
      LET s0 == [st EXCEPT !.cooldown_until = None]
          params == trade_params[s0.current_phase]
      IN  IF ~IsSome(s0.active_position) THEN cap_scan(s0, price, id, ex)
          ELSE LET pos == Unwrap(s0.active_position)
                   actual_sl == UnwrapOr(pos.sl, params[2])
               IN  IF price >= actual_sl THEN cap_stop_loss(s0, pos, price, t, ex)
                   ELSE IF price <= params[3] THEN cap_take_profit(s0, pos, price, ex)
                   ELSE cap_partial(s0, pos, price, ex)

\* the cycle that goes on scanning for entries once Complete
cap_run_cycle_past_complete(st, price, t, id, ex) ==
    IF st.current_phase = Complete THEN cap_scan(st, price, id, ex)
    ELSE IF IsSome(st.cooldown_until) /\ t < Unwrap(st.cooldown_until)
    THEN CapResult(st, << >>, << >>, "cooldown")
    ELSE
      LET s0 == [st EXCEPT !.cooldown_until = None]
          params == trade_params[s0.current_phase]
      IN  IF ~IsSome(s0.active_position) THEN cap_scan(s0, price, id, ex)
          ELSE LET pos == Unwrap(s0.active_position)
                   actual_sl == UnwrapOr(pos.sl, params[2])
               IN  IF price >= actual_sl THEN cap_stop_loss(s0, pos, price, t, ex)
                   ELSE IF price <= params[3] THEN cap_take_profit(s0, pos, price, ex)
                   ELSE cap_partial(s0, pos, price, ex)

\* CapitulationStrategy::run_cycle
cap_run_cycle(st, price, t, id, ex) ==
    IF st.current_phase = Complete THEN CapResult(st, << >>, << >>, "complete")
    ELSE IF IsSome(st.cooldown_until) /\ t < Unwrap(st.cooldown_until)
    THEN CapResult(st, << >>, << >>, "cooldown")
    ELSE
      LET s0 == [st EXCEPT !.cooldown_until = None]
          params == trade_params[s0.current_phase]
      IN  IF ~IsSome(s0.active_position) THEN cap_scan(s0, price, id, ex)
          ELSE LET pos == Unwrap(s0.active_position)
                   actual_sl == UnwrapOr(pos.sl, params[2])
               IN  IF price >= actual_sl THEN cap_stop_loss(s0, pos, price, t, ex)
                   ELSE IF price <= params[3] THEN cap_take_profit(s0, pos, price, ex)
                   ELSE cap_partial(s0, pos, price, ex)

----------------------------------------------------------------------------
(* Helper: stops, pnl, funding; fee model *)

\* the stop placed on the wrong side of the entry
stop_loss_price_swapped(entry_price, margin, leverage, risk_pct, pos) ==
    LET delta_price == MulDiv(entry_price, risk_pct, leverage * 100)
    IN  IF pos = "Long" THEN entry_price + delta_price
        ELSE IF pos = "Short" THEN entry_price - delta_price
        ELSE 0

\* desired_loss = margin * risk_pct; delta = desired_loss / (margin * leverage)
\* * entry_price.  risk_pct is in %; the margin cancels (it is never 0 here).
stop_loss_price(entry_price, margin, leverage, risk_pct, pos) ==
    LET delta_price == MulDiv(entry_price, risk_pct, leverage * 100)
    IN  IF pos = "Long" THEN entry_price - delta_price
        ELSE IF pos = "Short" THEN entry_price + delta_price
        ELSE 0

ssl_hit(current_price, side, sl) ==
    IF side = "Long" THEN current_price <= sl
    ELSE IF side = "Short" THEN current_price >= sl
    ELSE FALSE

\* the pnl that keeps its sign
compute_pnl_signed(pos, entry_price, position_size, exit_price) ==
    IF pos = "Long" THEN (exit_price - entry_price) * position_size
    ELSE IF pos = "Short" THEN (entry_price - exit_price) * position_size
    ELSE 0

compute_pnl(pos, entry_price, position_size, exit_price) ==
    IF entry_price < 0 \/ exit_price < 0 THEN 0
    ELSE LET pnl_diff ==
                 IF pos = "Long" /\ exit_price # 0 /\ entry_price # 0
                 THEN exit_price - entry_price
                 ELSE IF pos = "Short" /\ exit_price # 0 /\ entry_price # 0
                 THEN entry_price - exit_price
                 ELSE 0
         IN  IF pnl_diff >= 0 /\ position_size >= 0 THEN pnl_diff * position_size
             ELSE 0

\* multiplier in %, funding rate in 10^-4: 1 -/+ rate * 800, clamped
funding_multiplier(funding_rate, pos) ==
    LET m == IF pos = "Long" THEN 100 - funding_rate * 8
             ELSE IF pos = "Short" THEN 100 + funding_rate * 8
             ELSE 100
    IN  IF m < 50 THEN 50 ELSE IF m > 150 THEN 150 ELSE m

\* BitgetFuturesFees::fee_on_notional, taker rate in 10^-4
fee_on_notional(price, size, rate) == MulDiv(price * rate, size, 10000)

pnl_for_exit(side, entry_price, exit_price, size) ==
    IF side = "Long" THEN (exit_price - entry_price) * size
    ELSE IF side = "Short" THEN (entry_price - exit_price) * size
    ELSE 0

calc_margin_for_entry(entry_price, position_size, margin, rate) ==
    margin - fee_on_notional(entry_price, position_size, rate)

\* <<pnl after the exit fee, exit fee>>
calc_pnl_for_exit(open_position, current_price, rate) ==
    LET exit_fee == fee_on_notional(current_price, open_position.position_size, rate)
        pnl == pnl_for_exit(open_position.pos, open_position.entry_price,
                            current_price, open_position.position_size)
    IN  <<pnl - exit_fee, exit_fee>>

----------------------------------------------------------------------------
(* Zones and ZoneGuard *)

Zone(low, high, side) == [low |-> low, high |-> high, side |-> side]
contains(z, price) == price >= z.low /\ price <= z.high

\* zone sets the zone source publishes: one long zone reaching 0.075 % below
\* a strong low, one short zone reaching 0.075 % above a strong high
LongA == Zone(99925, 100000, "Long")
LongB == Zone(98926, 99000, "Long")
ShortA == Zone(104000, 104078, "Short")
ZonesA == [long_zones |-> <<LongA>>, short_zones |-> <<ShortA>>]
ZonesB == [long_zones |-> <<LongB>>, short_zones |-> <<ShortA>>]
ZoneConfigs == {ZonesA, ZonesB}
\* the market has fallen: the highest sweep high now lies below the long zone
ShortB == Zone(98926, 99000, "Short")
ZonesC == [long_zones |-> <<LongA>>, short_zones |-> <<ShortB>>]
AllZones == {LongA, LongB, ShortA, ShortB}

\* ZoneId::from_zone: a fingerprint of (side, low, high)
from_zone(zone) == zone

\* index of the first zone of the list containing the price, 0 if none
find_zone(zone_list, price) ==
    IF \E i \in 1..Len(zone_list) : contains(zone_list[i], price)
    THEN CHOOSE i \in 1..Len(zone_list) :
            /\ contains(zone_list[i], price)
            /\ \A j \in 1..(i - 1) : ~contains(zone_list[j], price)
    ELSE 0

any_zone(zone_list, price) == \E i \in 1..Len(zone_list) : contains(zone_list[i], price)

max_losses == 2
cooldown_secs == 8          \* ZoneGuard cooldown, hours
StatsDefaultTtl == 12       \* hours
LossCountTtl == 12          \* hours
UnixEpochHours == 480000    \* ZoneGuard::now() when the process starts, hours

DefaultZoneStats == [consecutive_losses |-> 0, disabled |-> FALSE, cooldown_until |-> None]

\* a time-limited key: the value is gone once its time to live has run out
Live(entry, t) == IF IsSome(entry) /\ t < Unwrap(entry).expires THEN Some(Unwrap(entry).value)
                  ELSE None
Expiring(value, t, ttl) == Some([value |-> value, expires |-> t + ttl])

\* the read that ignores the expiry of the record
get_trade_result_stale(st, zone_id, t) ==
    UnwrapOr(IF IsSome(st.zone_stats[zone_id])
             THEN Some(Unwrap(st.zone_stats[zone_id]).value) ELSE None,
             DefaultZoneStats)

get_trade_result(st, zone_id, t) == UnwrapOr(Live(st.zone_stats[zone_id], t), DefaultZoneStats)

\* the entry of ZoneGuard.zones for a zone, or_default()
GuardStats(b, zone) == UnwrapOr(b.zone_guard[zone], DefaultZoneStats)

----------------------------------------------------------------------------
(* Bot *)

Config == [margin |-> 50 * QtyScale, leverage |-> 20, risk_pct |-> 5,
           ranger_risk_pct |-> 15, ranger_price_difference |-> 1000]

default_open_position ==
    [id |-> 0, pos |-> "Flat", entry_price |-> 0, position_size |-> 15000,
     tp |-> Some(0), sl |-> Some(0), margin |-> Some(50 * QtyScale),
     quantity |-> Some(15000), order_id |-> Some("")]

\* a cycle threads the Bot, its store keys, the closed-position list, the
\* orders sent and the id source through its helpers
World(b, st, closed, calls, id) ==
    [bot |-> b, store |-> st, closed |-> closed, calls |-> calls, next_id |-> id]

\* the read that ignores the expiry of the loss count
load_loss_count_stale(st, t) ==
    UnwrapOr(IF IsSome(st.loss_count) THEN Some(Unwrap(st.loss_count).value) ELSE None, 0)

load_loss_count(st, t) == UnwrapOr(Live(st.loss_count, t), 0)

\* margin of the store, config.margin when missing or at most 5
load_current_margin(st) ==
    LET margin == UnwrapOr(st.capital, Config.margin)
    IN  IF margin <= 5 * QtyScale THEN Config.margin ELSE margin

store_position(w, pos, open_pos) ==
    [w EXCEPT !.store.position = pos, !.store.active = Some(open_pos)]

prepare_current_margin(w, pnl) ==
    LET update(sum) ==
            LET rekt == sum <= 5 * QtyScale
                current_margin == IF rekt THEN Config.margin ELSE sum
                open_pos == IF rekt
                            THEN [w.bot.open_pos EXCEPT !.margin = Some(Config.margin)]
                            ELSE w.bot.open_pos
            IN  [w EXCEPT !.bot.open_pos = open_pos,
                          !.bot.current_margin = current_margin,
                          !.store.capital = Some(current_margin),
                          !.store.active = Some(open_pos)]
    IN  update(load_current_margin(w.store) + pnl)

\* the guard that disables one loss late
record_trade_result_late(w, zone_id, pnl, t) ==
    LET stats == UnwrapOr(w.bot.zone_guard[zone_id], DefaultZoneStats)
        losses == stats.consecutive_losses + 1
        save(s1) ==
            [w EXCEPT !.bot.zone_guard[zone_id] = Some(s1),
                      !.store.zone_stats[zone_id] =
                          Expiring(s1, t, UnwrapOr(s1.cooldown_until, StatsDefaultTtl))]
    IN  save(IF pnl < 0
             THEN IF losses > max_losses
                  THEN [consecutive_losses |-> losses, disabled |-> TRUE,
                        cooldown_until |-> Some(UnixEpochHours + t + cooldown_secs)]
                  ELSE [stats EXCEPT !.consecutive_losses = losses]
             ELSE [stats EXCEPT !.consecutive_losses = 0])

\* the guard that forgives a zone on a result that is not a loss
record_trade_result_forgiving(w, zone_id, pnl, t) ==
    LET stats == UnwrapOr(w.bot.zone_guard[zone_id], DefaultZoneStats)
        losses == stats.consecutive_losses + 1
        save(s1) ==
            [w EXCEPT !.bot.zone_guard[zone_id] = Some(s1),
                      !.store.zone_stats[zone_id] =
                          Expiring(s1, t, UnwrapOr(s1.cooldown_until, StatsDefaultTtl))]
    IN  save(IF pnl < 0
             THEN IF losses >= max_losses
                  THEN [consecutive_losses |-> losses, disabled |-> TRUE,
                        cooldown_until |-> Some(UnixEpochHours + t + cooldown_secs)]
                  ELSE [stats EXCEPT !.consecutive_losses = losses]
             ELSE DefaultZoneStats)

record_trade_result(w, zone_id, pnl, t) ==
    LET stats == UnwrapOr(w.bot.zone_guard[zone_id], DefaultZoneStats)
        losses == stats.consecutive_losses + 1
        save(s1) ==
            [w EXCEPT !.bot.zone_guard[zone_id] = Some(s1),
                      !.store.zone_stats[zone_id] =
                          Expiring(s1, t, UnwrapOr(s1.cooldown_until, StatsDefaultTtl))]
    IN  save(IF pnl < 0
             THEN IF losses >= max_losses
                  THEN [consecutive_losses |-> losses, disabled |-> TRUE,
                        cooldown_until |-> Some(UnixEpochHours + t + cooldown_secs)]
                  ELSE [stats EXCEPT !.consecutive_losses = losses]
             ELSE [stats EXCEPT !.consecutive_losses = 0])

store_loss_count(w, pnl, t) ==
    IF pnl < 0
    THEN [w EXCEPT !.bot.loss_count = @ + 1,
                   !.store.loss_count = Expiring(w.bot.loss_count + 1, t, LossCountTtl)]
    ELSE w

closed_position(open_pos, side, exit_price, pnl, quantity, fees) ==
    [id |-> open_pos.id, position |-> side, entry_price |-> open_pos.entry_price,
     exit_price |-> exit_price, pnl |-> pnl, quantity |-> quantity, sl |-> open_pos.sl,
     pnl_after_fees |-> fees[1], exit_fee |-> fees[2]]

\* variant of track_loss that records the result whatever the ladder holds
track_loss_any_ladder(w, zone_list, pnl_after_fees, t) ==
    LET record(idx) ==
            IF idx # 0
            THEN record_trade_result(w, from_zone(zone_list[idx]), pnl_after_fees, t)
            ELSE w
        reload(w1) == [w1 EXCEPT !.bot.loss_count = load_loss_count(w1.store, t)]
    IN  reload(store_loss_count(record(find_zone(zone_list, w.bot.open_pos.entry_price)),
                                pnl_after_fees, t))

\* the tail shared by close_long_position and close_short_position: with
\* all 4 rungs present, the zone of the side containing the entry price gets
\* the result and the loss count is updated
track_loss(w, zone_list, pnl_after_fees, t) ==
    LET record(idx) ==
            IF idx # 0
            THEN record_trade_result(w, from_zone(zone_list[idx]), pnl_after_fees, t)
            ELSE w
        reload(w1) == [w1 EXCEPT !.bot.loss_count = load_loss_count(w1.store, t)]
    IN  reload(IF Len(w.bot.partial_profit_target) = 4
               THEN store_loss_count(
                        record(find_zone(zone_list, w.bot.open_pos.entry_price)),
                        pnl_after_fees, t)
               ELSE w)

close_long_position(w, price, rate, t) ==
    LET op == w.bot.open_pos
        track(w1, pnl_after_fees) ==
            track_loss(w1, w1.bot.zones.long_zones, pnl_after_fees, t)
        record(pnl, fees) ==
            track(prepare_current_margin(
                      [w EXCEPT !.closed =
                           <<closed_position(op, "Long", price, pnl,
                                             Some(op.position_size), fees)>> \o @],
                      fees[1]),
                  fees[1])
    IN  record(compute_pnl(w.bot.pos, op.entry_price, op.position_size, price),
               calc_pnl_for_exit(op, price, rate))

close_short_position(w, price, rate, t) ==
    LET op == w.bot.open_pos
        track(w1, pnl_after_fees) ==
            track_loss(w1, w1.bot.zones.short_zones, pnl_after_fees, t)
        record(pnl, fees) ==
            track(prepare_current_margin(
                      [w EXCEPT !.closed =
                           <<closed_position(op, "Short", price, pnl,
                                             Some(op.position_size), fees)>> \o @],
                      fees[1]),
                  fees[1])
    IN  record(compute_pnl(op.pos, op.entry_price, op.position_size, price),
               calc_pnl_for_exit(op, price, rate))

close_position(w, side, price, rate, t) ==
    IF side = "Long" THEN close_long_position(w, price, rate, t)
    ELSE close_short_position(w, price, rate, t)

\* take_profit_on_long / take_profit_on_short: <<world, failed>>
take_profit(w, side, price, rate, t, ex) ==
    LET order(w1) == [w1 EXCEPT !.calls = Append(@, modify_futures_order(w1.bot.open_pos))]
        close(w2) ==
            IF ex = "error" THEN <<w2, TRUE>>
            ELSE <<[close_position(w2, side, price, rate, t) EXCEPT !.bot.pos = "Flat"],
                   FALSE>>
    IN  close(order([w EXCEPT !.bot.open_pos.tp = Some(price)]))

\* take_partial_profit_on_long / _on_short: <<world, failed>>
take_partial_profit(w, side, price, target, rate, t, ex) ==
    LET qty_to_close == target.size_btc
        remaining_size == UnwrapOr(w.bot.open_pos.quantity, 0) - qty_to_close
        \* the remaining position is stored
        keep(w5) ==
            LET new_pos == [w5.bot.open_pos EXCEPT
                               !.position_size = remaining_size,
                               !.tp = Some(target.target_price),
                               !.sl = target.sl,
                               !.quantity = Some(remaining_size),
                               !.order_id = IF side = "Long"
                                            THEN Some(modify_order_id(ex)) ELSE @]
            IN  store_position([w5 EXCEPT !.bot.open_pos = new_pos], w5.bot.pos, new_pos)
        \* the order has been answered: the rung is recorded as closed
        settle(w4, op, pnl, fees) ==
            keep(prepare_current_margin(
                     [w4 EXCEPT !.closed =
                          <<closed_position(
                                IF side = "Long" THEN op
                                ELSE [op EXCEPT !.order_id = Some(modify_order_id(ex))],
                                side, price, pnl, Some(qty_to_close), fees)>> \o @],
                     fees[1]))
        \* the close order of the rung
        order(w3, modified_open_pos) ==
            LET w4 == [w3 EXCEPT !.calls = Append(@, modify_futures_order(modified_open_pos))]
            IN  IF ex = "error" THEN <<w4, TRUE>>
                ELSE <<settle(w4, w3.bot.open_pos,
                              compute_pnl(w3.bot.pos, w3.bot.open_pos.entry_price,
                                          qty_to_close, price),
                              calc_pnl_for_exit(modified_open_pos, price, rate)),
                       FALSE>>
        fill(w3) == order(w3, [w3.bot.open_pos EXCEPT !.position_size = qty_to_close,
                                                     !.quantity = Some(qty_to_close)])
        close_rest(w2) ==
            IF remaining_size <= 0
            THEN close_position(
                     [w2 EXCEPT !.bot.open_pos.quantity = Some(remaining_size),
                                !.bot.open_pos.position_size = remaining_size],
                     side, price, rate, t)
            ELSE w2
        all_hit(w1) ==
            IF Len(w1.bot.partial_profit_target) = 0
            THEN [w1 EXCEPT !.bot.pos = "Flat", !.bot.partial_profit_target = << >>]
            ELSE w1
    IN  fill(close_rest(all_hit(IF qty_to_close <= 0
                                THEN close_position(w, side, price, rate, t) ELSE w)))

\* the rung test of evaluate_*_partial_profit
rung_hit(side, price, target) ==
    IF side = "Long" THEN price >= target.target_price ELSE price <= target.target_price

first_hit(side, targets, price) ==
    IF \E i \in 1..Len(targets) : rung_hit(side, price, targets[i])
    THEN CHOOSE i \in 1..Len(targets) :
            /\ rung_hit(side, price, targets[i])
            /\ \A j \in 1..(i - 1) : ~rung_hit(side, price, targets[j])
    ELSE 0

\* evaluate_long_partial_profit / evaluate_short_partial_profit:
\* <<world, failed>>
evaluate_partial_profit(w, side, price, rate, t, ex) ==
    LET w1 == IF Len(w.bot.partial_profit_target) = 0
              THEN [w EXCEPT !.bot.pos = "Flat"] ELSE w
        remove(r, idx) ==
            IF r[2] THEN r
            ELSE LET ladder == RemoveAt(r[1].bot.partial_profit_target, idx)
                 IN  <<[r[1] EXCEPT !.bot.partial_profit_target = ladder,
                                    !.store.ladder = Some(ladder)], FALSE>>
        take(idx) ==
            LET target == w1.bot.partial_profit_target[idx]
            IN  IF idx = 0 THEN <<w1, FALSE>>
                ELSE IF target.target_price <= 0 THEN <<w1, FALSE>>
                ELSE remove(take_partial_profit(w1, side, price, target, rate, t, ex), idx)
    IN  take(first_hit(side, w1.bot.partial_profit_target, price))

determine_profit_difference(zones, entry_price, pos) ==
    LET above == {i \in 1..Len(zones.short_zones) : zones.short_zones[i].low > entry_price}
        below == {i \in 1..Len(zones.long_zones) : zones.long_zones[i].high < entry_price}
    IN  IF pos = "Long"
        THEN IF above = {} THEN 0
             ELSE LET i == CHOOSE i \in above : \A j \in above :
                               zones.short_zones[i].low <= zones.short_zones[j].low
                  IN  zones.short_zones[i].low - entry_price
        ELSE IF pos = "Short"
        THEN IF below = {} THEN 0
             ELSE LET i == CHOOSE i \in below : \A j \in below :
                               zones.long_zones[i].high >= zones.long_zones[j].high
                  IN  entry_price - zones.long_zones[i].high
        ELSE 0

store_partial_profit_targets(w, entry_price, pos) ==
    LET zones == w.store.zones
        build(price_difference) ==
            build_profit_targets(entry_price, w.bot.current_margin, Config.leverage,
                                 IF price_difference # 0 THEN price_difference \div 4
                                 ELSE Config.ranger_price_difference,
                                 pos)
        save(ppt) == [w EXCEPT !.bot.zones = zones,
                               !.bot.partial_profit_target = ppt,
                               !.store.ladder = Some(ppt)]
    IN  save(build(determine_profit_difference(zones, entry_price, pos)))

prepare_open_position(w, pos, entry_price, lev, risk_pct, multiplier, rate) ==
    LET ladder == w.bot.partial_profit_target
        tp == IF Len(ladder) > 0 THEN ladder[Len(ladder)].target_price ELSE 1
        open(current_margin, qty) ==
            [id |-> w.next_id, pos |-> pos, entry_price |-> entry_price,
             position_size |-> qty, tp |-> Some(tp),
             sl |-> Some(stop_loss_price(entry_price, current_margin, lev, risk_pct, pos)),
             margin |-> Some(calc_margin_for_entry(entry_price, qty, current_margin, rate)),
             quantity |-> Some(qty), order_id |-> Some("")]
        size(current_margin) ==
            open(current_margin, contract_amount(entry_price, current_margin, lev))
    IN  size(MulDiv(w.bot.current_margin, multiplier, 100))

BotResult(w, outcome, stored) == [world |-> w, outcome |-> outcome, stored |-> stored]

\* the Flat arm for one side, the price lying in zone; stored says whether
\* the cycle goes on to its final store_position
bot_entry(w, zone, side, price, inp, t) ==
    LET place(w3, open_pos) ==
            LET w4 == [w3 EXCEPT !.bot.open_pos = open_pos, !.next_id = @ + 1,
                                 !.calls = Append(@, new_futures_call(open_pos))]
            IN  IF inp.ex1 = "error" THEN BotResult(w4, "entry_error", FALSE)
                ELSE BotResult(
                         [w4 EXCEPT !.bot.open_pos.order_id = Some(place_order_id(inp.ex1))],
                         IF inp.ex1 = "rejected" THEN "entry_rejected" ELSE "entry", TRUE)
        order(w3) ==
            place(w3, prepare_open_position(w3, side, price, Config.leverage,
                                            Config.ranger_risk_pct,
                                            funding_multiplier(inp.funding, side), inp.fee))
    IN  IF get_trade_result(w.store, from_zone(zone), t).disabled
        THEN BotResult(w, "zone_disabled", FALSE)
        ELSE order(store_partial_profit_targets(
                       [w EXCEPT !.store.ladder = None,
                                 !.bot.partial_profit_target = << >>,
                                 !.bot.pos = side],
                       price, side))

bot_flat(w, price, inp, t) ==
    LET enter(li, si) ==
            IF li # 0 THEN bot_entry(w, w.bot.zones.long_zones[li], "Long", price, inp, t)
            ELSE IF si # 0
            THEN bot_entry(w, w.bot.zones.short_zones[si], "Short", price, inp, t)
            ELSE BotResult(w, "out_of_zone", TRUE)
    IN  enter(find_zone(w.bot.zones.long_zones, price),
              find_zone(w.bot.zones.short_zones, price))

\* the Long and the Short arm
bot_in_position(w, side, price, inp, t) ==
    LET op == w.bot.open_pos
        in_sl == stop_loss_price(op.entry_price, Config.margin, Config.leverage,
                                 Config.risk_pct, side)
        \* the outcome, the partial-profit step done
        result(hit, w1, w2, any_hit, ev) ==
            BotResult(ev[1], IF hit THEN "stop_loss"
                             ELSE IF w2.bot.pos # w1.bot.pos THEN "take_profit"
                             ELSE IF ev[2] THEN "partial_error"
                             ELSE IF any_hit THEN "partial" ELSE "hold", TRUE)
        partial(hit, w1, w2, any_hit) ==
            result(hit, w1, w2, any_hit,
                   IF any_hit
                   THEN evaluate_partial_profit(w2, side, price, inp.fee, t, inp.ex2)
                   ELSE <<w2, FALSE>>)
        \* the take-profit step done
        after_tp(hit, w1, tp) ==
            IF tp[2] THEN BotResult(tp[1], "tp_error", FALSE)
            ELSE partial(hit, w1, tp[1],
                         /\ Len(tp[1].bot.partial_profit_target) > 0
                         /\ \E i \in 1..Len(tp[1].bot.partial_profit_target) :
                                rung_hit(side, price, tp[1].bot.partial_profit_target[i]))
        \* the stop-loss step done
        after_stop(hit, w1) ==
            after_tp(hit, w1,
                     IF any_zone(IF side = "Long" THEN w1.bot.zones.short_zones
                                 ELSE w1.bot.zones.long_zones, price)
                     THEN take_profit(w1, side, price, inp.fee, t, inp.ex1)
                     ELSE <<w1, FALSE>>)
        stop(hit) ==
            after_stop(hit,
                       IF hit
                       THEN [close_position(w, side, price, inp.fee, t)
                                EXCEPT !.bot.pos = "Flat"]
                       ELSE w)
    IN  stop(ssl_hit(price, w.bot.pos, UnwrapOr(op.sl, in_sl)))

\* MacroGuard: no trading from NoTradeBefore hours before a high-impact
\* event to NoTradeAfter hours after it
NoTradeBefore == 12
NoTradeAfter == 12
MacroEvents == {36}
windows == {[start |-> e - NoTradeBefore, end |-> e + NoTradeAfter] : e \in MacroEvents}
trading_allowed(t, ws) == ~(\E w \in ws : t >= w.start /\ t <= w.end)
allow_entry(t) == trading_allowed(t, windows)

\* the reserved "no price" value 1.11 of get_bitget_price, in the whole USD
\* of the model's prices
NoPrice == 1

\* variant of Bot::run_cycle that does not consult the macro gate
bot_run_cycle_gate_open(w, price, inp, t) ==
    LET finish(r) ==
            IF r.stored
            THEN [r EXCEPT !.world = store_position(r.world, r.world.bot.pos,
                                                    r.world.bot.open_pos)]
            ELSE r
        arm(w1) ==
            IF w1.bot.pos = "Flat" THEN bot_flat(w1, price, inp, t)
            ELSE bot_in_position(w1, w1.bot.pos, price, inp, t)
    IN  IF price = NoPrice THEN BotResult(w, "no_price", FALSE)
        ELSE IF w.bot.loss_count >= 2
        THEN BotResult([w EXCEPT !.bot.loss_count = load_loss_count(w.store, t)],
                       "loss_blocked", FALSE)
        ELSE finish(arm([w EXCEPT !.bot.zones = w.store.zones]))

\* Bot::run_cycle
bot_run_cycle(w, price, inp, t) ==
    LET finish(r) ==
            IF r.stored
            THEN [r EXCEPT !.world = store_position(r.world, r.world.bot.pos,
                                                    r.world.bot.open_pos)]
            ELSE r
        arm(w1) ==
            IF w1.bot.pos = "Flat" THEN bot_flat(w1, price, inp, t)
            ELSE bot_in_position(w1, w1.bot.pos, price, inp, t)
    IN  IF price = NoPrice THEN BotResult(w, "no_price", FALSE)
        ELSE IF ~allow_entry(t) THEN BotResult(w, "macro_blocked", FALSE)
        ELSE IF w.bot.loss_count >= 2
        THEN BotResult([w EXCEPT !.bot.loss_count = load_loss_count(w.store, t)],
                       "loss_blocked", FALSE)
        ELSE finish(arm([w EXCEPT !.bot.zones = w.store.zones]))

----------------------------------------------------------------------------
(* Initial state and the ticks of the capitulation machine *)

\* no function has been called directly
NoCall == [fn |-> "none"]

max_backoff == 64

\* start_live_trading before its loop: backoff_secs = 1, nothing slept yet,
\* the next thing it does is subscribe
LiveStart == [backoff_secs |-> 1, at |-> "subscribe", slept |-> 0]

\* the entry, stop, rung and take-profit levels of the two scanned phases
\* and a price far above the stops
CapPrices ==
    {88405, 86405, 85905, 85405, 84405, 76575, 76405, 74405}

Init ==
    /\ now = 0
    /\ last_pr = 0
    /\ next_id = 1
    /\ exchange_calls = << >>
    /\ capitulation_state = DefaultCapitulationState
    /\ cap_store = DefaultCapitulationState
    /\ cap_closed = << >>
    /\ cap_result = "none"
    /\ step = "init"
    /\ bot = [open_pos |-> default_open_position, pos |-> "Flat", zones |-> ZonesA,
              loss_count |-> 0, current_margin |-> Config.margin,
              partial_profit_target |-> << >>,
              zone_guard |-> [z \in AllZones |-> None]]
    /\ store = [position |-> "Flat", active |-> None, zones |-> ZonesA, capital |-> None,
                ladder |-> None, loss_count |-> None,
                zone_stats |-> [z \in AllZones |-> None]]
    /\ closed_positions = << >>
    /\ bot_result = "none"
    /\ last_call = NoCall
    /\ live = LiveStart

\* the tick whose state is stored only by the branches of the strategy
\* cycle, which an exchange error leaves before their store_state
run_capitulation_cycle_store_on_ok(price, ex) ==
    LET r == cap_run_cycle(capitulation_state, price, now, next_id, ex)
    IN  /\ last_pr' = price
        /\ capitulation_state' = r.state
        /\ cap_store' = IF r.outcome \in {"entry_error", "stop_error", "tp_error",
                                          "partial_error"}
                        THEN cap_store ELSE r.state
        /\ cap_closed' = r.closed \o cap_closed
        /\ exchange_calls' = r.calls
        /\ cap_result' = r.outcome
        /\ next_id' = IF r.outcome = "entry" THEN next_id + 1 ELSE next_id
        /\ step' = "capitulation"
        /\ UNCHANGED <<live, now, last_call, botVars>>

\* the tick whose closed positions go to the list of the Bot
run_capitulation_cycle_shared_list(price, ex) ==
    LET r == cap_run_cycle(capitulation_state, price, now, next_id, ex)
    IN  /\ last_pr' = price
        /\ capitulation_state' = r.state
        /\ cap_store' = r.state
        /\ closed_positions' = r.closed \o closed_positions
        /\ exchange_calls' = r.calls
        /\ cap_result' = r.outcome
        /\ next_id' = IF r.outcome = "entry" THEN next_id + 1 ELSE next_id
        /\ step' = "capitulation"
        /\ UNCHANGED <<live, now, last_call, cap_closed, bot, store, bot_result>>

\* Bot::run_capitulation_cycle on one tick: the strategy cycle, whose error
\* is only logged, then the unconditional store of the state
run_capitulation_cycle(price, ex) ==
    LET r == cap_run_cycle(capitulation_state, price, now, next_id, ex)
    IN  /\ last_pr' = price
        /\ capitulation_state' = r.state
        /\ cap_store' = r.state
        /\ cap_closed' = r.closed \o cap_closed
        /\ exchange_calls' = r.calls
        /\ cap_result' = r.outcome
        /\ next_id' = IF r.outcome = "entry" THEN next_id + 1 ELSE next_id
        /\ step' = "capitulation"
        /\ UNCHANGED <<live, now, last_call, botVars>>

CapTick ==
    /\ \/ next_id <= MaxPositions
       \/ IsSome(capitulation_state.active_position)
       \/ capitulation_state.current_phase = Complete
    /\ capitulation_state.current_capital <= MaxCapital * QtyScale
    /\ \E price \in CapPrices, ex \in ExchangeOutcomes : run_capitulation_cycle(price, ex)

AdvanceClock ==
    /\ now < MaxNow
    /\ now' = now + ClockStep
    /\ step' = "clock"
    /\ UNCHANGED <<live, last_pr, next_id, exchange_calls, last_call, capVars, botVars>>

NextCap == CapTick \/ AdvanceClock

----------------------------------------------------------------------------
(* The Bot driven tick by tick *)

BotPrices == {99000, 100000, 101000, 102000, 103000, 104000, 105000}
TakerFeeRates == {6}        \* 0.06 %
FundingRates == {1}         \* 0.0001

\* what the exchange answers in one cycle: fee rate, funding rate, the
\* outcome of an entry or full-close order, the outcome of a partial close
BotInputs ==
    [fee : TakerFeeRates, funding : FundingRates, ex1 : ExchangeOutcomes, ex2 : {"ok"}]
BotInputsFaulty ==
    [fee : TakerFeeRates, funding : {0}, ex1 : ExchangeOutcomes, ex2 : {"ok", "error"}]

\* Bot::run_cycle on one price
run_cycle(price, inp) ==
    \E r \in {bot_run_cycle(World(bot, store, closed_positions, << >>, next_id),
                               price, inp, now)} :
        /\ last_pr' = price
        /\ bot' = r.world.bot
        /\ store' = r.world.store
        /\ closed_positions' = r.world.closed
        /\ exchange_calls' = r.world.calls
        /\ next_id' = r.world.next_id
        /\ bot_result' = r.outcome
        /\ step' = "bot"
        /\ UNCHANGED <<live, now, last_call, capVars>>

\* the feed moves the price by at most MaxJump between two ticks
near(price) == last_pr = 0 \/ Abs(price - last_pr) <= MaxJump

BotTick ==
    /\ bot.current_margin <= MaxCapital * QtyScale
    /\ \E price \in BotPrices, inp \in BotInputs :
          /\ near(price)
          /\ run_cycle(price, inp)
          /\ next_id' <= MaxPositions + 1

\* ticks during which partial-close orders may fail as well
BotTickFaulty ==
    /\ bot.current_margin <= MaxCapital * QtyScale
    /\ \E price \in BotPrices, inp \in BotInputsFaulty :
          /\ near(price)
          /\ run_cycle(price, inp)
          /\ next_id' <= MaxFaultyPositions + 1
          /\ Len(closed_positions') <= MaxClosed

\* the zone source publishes another zone set
ZoneRefresh ==
    /\ store.zones = ZonesA
    /\ store' = [store EXCEPT !.zones = ZonesB]
    /\ step' = "zones"
    /\ UNCHANGED <<live, now, last_pr, next_id, exchange_calls, last_call, capVars,
                   bot, closed_positions, bot_result>>

BotClockStep == LossCountTtl

BotClock ==
    /\ now < MaxBotNow
    /\ now' = now + BotClockStep
    /\ step' = "clock"
    /\ UNCHANGED <<live, last_pr, next_id, exchange_calls, last_call, capVars, botVars>>

NextBot == BotTick \/ BotClock

SpecBot == Init /\ [][NextBot]_vars

NextBotZones == BotTick \/ ZoneRefresh

SpecBotZones == Init /\ [][NextBotZones]_vars

NextBotFaulty == BotTickFaulty

SpecBotFaulty == Init /\ [][NextBotFaulty]_vars

\* ticks of a feed that gaps: the price may move from one zone to the other
\* between two ticks
GapPrices == {99000, 100000, 102000, 104000}

BotTickGap ==
    /\ bot.current_margin <= MaxCapital * QtyScale
    /\ \E price \in GapPrices, inp \in BotInputs :
          /\ run_cycle(price, inp)
          /\ next_id' <= MaxPositions + 1

NextBotGap == BotTickGap

SpecBotGap == Init /\ [][NextBotGap]_vars

SpecCap == Init /\ [][NextCap]_vars

----------------------------------------------------------------------------
(* Bot::start_live_trading: the supervising loop over the ticker feed *)

\* prices of the feed: the entry, the first rung, the take profit and the
\* stop of phase 16
LivePrices == {76405, 75905, 74405, 76575}

\* what ticker.last_pr may hold: a decimal text (ok, with its value, which
\* may be zero) or a text that is no number
LiveTickers == [ok : {TRUE}, value : LivePrices \cup {0}] \cup {[ok |-> FALSE, value |-> 0]}

\* ticker.last_pr.parse().unwrap_or(0.0)
parse_last_pr(ticker) == IF ticker.ok THEN ticker.value ELSE 0

\* the wait with backoff_secs doubled up to max_backoff
live_sleep_uncapped(l) ==
    [l EXCEPT !.slept = l.backoff_secs, !.backoff_secs = l.backoff_secs * 2,
              !.at = "subscribe"]

\* Ok arm of subscribe_tickers: backoff_secs = 1, the stream is consumed
live_subscribed(l) == [l EXCEPT !.backoff_secs = 1, !.at = "stream"]

\* the tail of the loop: sleep(backoff_secs), then
\* backoff_secs = min(backoff_secs * 2, max_backoff)
live_sleep(l) ==
    [l EXCEPT !.slept = l.backoff_secs,
              !.backoff_secs = Min(l.backoff_secs * 2, max_backoff),
              !.at = "subscribe"]

\* BitgetWsClient::subscribe_tickers answers: a stream, or an error that is
\* logged before the loop tail
LiveSubscribe ==
    /\ live.at = "subscribe"
    /\ \E ok \in BOOLEAN :
          live' = IF ok THEN live_subscribed(live) ELSE [live EXCEPT !.at = "sleep"]
    /\ step' = "subscribe"
    /\ UNCHANGED <<now, last_pr, next_id, exchange_calls, last_call, capVars, botVars>>

\* one Ok(ticker) of the stream: the Capitulation cycle when the price is
\* positive, nothing otherwise
LiveTick ==
    /\ live.at = "stream"
    /\ \/ next_id <= MaxPositions
       \/ IsSome(capitulation_state.active_position)
       \/ capitulation_state.current_phase = Complete
    /\ capitulation_state.current_capital <= MaxCapital * QtyScale
    /\ \E ticker \in LiveTickers, ex \in ExchangeOutcomes :
          IF parse_last_pr(ticker) > 0
          THEN run_capitulation_cycle(parse_last_pr(ticker), ex)
          ELSE /\ step' = "skipped"
               /\ UNCHANGED <<live, now, last_pr, next_id, exchange_calls, last_call,
                              capVars, botVars>>

\* the stream yields Err (break) or ends (None): the loop tail follows
LiveStreamEnd ==
    /\ live.at = "stream"
    /\ live' = [live EXCEPT !.at = "sleep"]
    /\ step' = "stream_end"
    /\ UNCHANGED <<now, last_pr, next_id, exchange_calls, last_call, capVars, botVars>>

LiveSleep ==
    /\ live.at = "sleep"
    /\ live' = live_sleep(live)
    /\ step' = "sleep"
    /\ UNCHANGED <<now, last_pr, next_id, exchange_calls, last_call, capVars, botVars>>

NextLive == LiveSubscribe \/ LiveTick \/ LiveStreamEnd \/ LiveSleep

SpecLive == Init /\ [][NextLive]_vars

----------------------------------------------------------------------------
(* Bot::new: the construction of the Bot from what the store holds *)

\* Zones::default(): of its lists the first long and the first short zone
DefaultZones ==
    [long_zones |-> <<Zone(74306, 74394, "Long")>>,
     short_zones |-> <<Zone(125797, 125897, "Short")>>]

\* the records read by Bot::new
StartupKeys == {"position", "zones", "active", "capital", "ladder", "loss_count",
                "capitulation"}

\* what an earlier run may have left under the Bot's keys, an open Long among
\* it; None is a missing record
StartupStores ==
    [position : {"Flat", "Long"},
     active : {None,
               Some([default_open_position EXCEPT
                         !.id = 1, !.pos = "Long", !.entry_price = 100000,
                         !.position_size = 9200, !.quantity = Some(9200),
                         !.sl = Some(99750)])},
     zones : {ZonesB}, capital : {None, Some(3 * QtyScale), Some(47300000)},
     ladder : {None, Some(<< >>)}, loss_count : {None, Expiring(1, 0, LossCountTtl)},
     zone_stats : {[z \in AllZones |-> None]}]

\* the macro calendar: the backup file data/calendar_data.json and the
\* event list cached in the store
Calendars ==
    [file : {"present", "missing", "corrupt"}, cache : {"events", "empty", "error"}]

\* MacroGuard::new succeeds: filter_events needs the backup file to exist
\* and the cached list to be readable, fetch_events parses the file when the
\* list is empty
macro_guard_new(calendar) ==
    /\ calendar.file # "missing"
    /\ calendar.cache # "error"
    /\ calendar.cache = "empty" => calendar.file = "present"

\* Bot::load_position: Flat unless the text is Long or Short
load_position(st, unreadable) ==
    IF "position" \in unreadable THEN "Flat"
    ELSE IF st.position \in {"Long", "Short"} THEN st.position ELSE "Flat"

\* Bot::new with the keys of unreadable failing to load (read error or a
\* text that does not deserialize): every loader falls back to its default,
\* the error of MacroGuard::new is returned with `?`
bot_new(st, zones, cap_st, unreadable, calendar, t) ==
    [ok |-> macro_guard_new(calendar),
     bot |-> [open_pos |-> IF "active" \in unreadable THEN default_open_position
                           ELSE UnwrapOr(st.active, default_open_position),
              pos |-> load_position(st, unreadable),
              zones |-> IF "zones" \in unreadable THEN DefaultZones ELSE zones,
              loss_count |-> IF "loss_count" \in unreadable THEN 0
                             ELSE load_loss_count(st, t),
              current_margin |-> IF "capital" \in unreadable THEN Config.margin
                                 ELSE load_current_margin(st),
              partial_profit_target |-> IF "ladder" \in unreadable THEN << >>
                                        ELSE UnwrapOr(st.ladder, << >>),
              zone_guard |-> [z \in AllZones |-> None]],
     capitulation_state |-> IF "capitulation" \in unreadable
                            THEN DefaultCapitulationState ELSE cap_st]

\* the process is about to start on a store left by an earlier run
InitStartup ==
    /\ now = 0
    /\ last_pr = 0
    /\ next_id = 1
    /\ exchange_calls = << >>
    /\ capitulation_state = DefaultCapitulationState
    /\ cap_store \in {DefaultCapitulationState,
                      [DefaultCapitulationState EXCEPT !.current_phase = 16,
                                                       !.current_capital = 150 * QtyScale]}
    /\ cap_closed = << >>
    /\ cap_result = "none"
    /\ step = "start"
    /\ bot = [open_pos |-> default_open_position, pos |-> "Flat", zones |-> ZonesB,
              loss_count |-> 0, current_margin |-> Config.margin,
              partial_profit_target |-> << >>,
              zone_guard |-> [z \in AllZones |-> None]]
    /\ store \in StartupStores
    /\ closed_positions = << >>
    /\ bot_result = "none"
    /\ last_call = NoCall
    /\ live = LiveStart

\* Bot::new: the Bot is built, or the construction returns the error of
\* MacroGuard::new and there is no Bot
BotNew ==
    /\ step = "start"
    /\ \E unreadable \in SUBSET StartupKeys, calendar \in Calendars :
          LET r == bot_new(store, store.zones, cap_store, unreadable, calendar, now)
          IN  /\ last_call' = [fn |-> "Bot::new", unreadable |-> unreadable,
                               calendar |-> calendar]
              /\ IF r.ok
                 THEN /\ bot' = r.bot
                      /\ capitulation_state' = r.capitulation_state
                      /\ step' = "new"
                 ELSE /\ step' = "abort"
                      /\ UNCHANGED <<bot, capitulation_state>>
    /\ UNCHANGED <<live, now, last_pr, next_id, exchange_calls, cap_store, cap_closed,
                   cap_result, store, closed_positions, bot_result>>

NextStartup == BotNew

SpecStartup == InitStartup /\ [][NextStartup]_vars

----------------------------------------------------------------------------
(* Cycles fed with the "no price" value *)

\* the entry and the first three rungs of phase 16, and the sentinel
SentinelPrices == {76405, 75905, 75405, 74905, NoPrice}

\* the sentinel reaches positions of at most 0.02 BTC, whose PnL against a
\* price of 1 stays below 2^31
MaxSentinelQty == 20000

CapTickSentinel ==
    /\ \/ next_id <= MaxPositions
       \/ IsSome(capitulation_state.active_position)
       \/ capitulation_state.current_phase = Complete
    /\ capitulation_state.current_capital <= MaxCapital * QtyScale
    /\ \E price \in SentinelPrices, ex \in ExchangeOutcomes :
          /\ (price = NoPrice /\ IsSome(capitulation_state.active_position)) =>
                Unwrap(Unwrap(capitulation_state.active_position).quantity)
                    <= MaxSentinelQty
          /\ run_capitulation_cycle(price, ex)

BotTickSentinel == \E inp \in BotInputs : run_cycle(NoPrice, inp)

NextSentinel == CapTickSentinel \/ BotTickSentinel

SpecSentinel == Init /\ [][NextSentinel]_vars

----------------------------------------------------------------------------
(* Bot::store_position called directly, the store failing at any point *)

\* the snapshots handed to store_position: the default one of a Flat Bot,
\* open Longs and open Shorts entered at the bounds of the zones
Snapshots ==
    {default_open_position}
    \cup {[default_open_position EXCEPT !.id = 1, !.pos = "Long", !.entry_price = e,
                                        !.position_size = 9200, !.quantity = Some(9200),
                                        !.sl = Some(e - 250)] : e \in {99000, 100000}}
    \cup {[default_open_position EXCEPT !.id = 2, !.pos = "Short", !.entry_price = e,
                                        !.position_size = 8800, !.quantity = Some(8800),
                                        !.sl = Some(e + 260)] : e \in {104000, 104078}}

\* where the call ends: after both writes, at the first SET (its error is
\* returned with `?`) or between the two SETs (the second one fails, or the
\* process stops)
StoreFailures == {"none", "position", "active"}

\* Bot::store_position: SET TRADING_BOT_POSITION, then
\* OpenPosition::store_open_position, which SETs TRADING_BOT_ACTIVE
store_position_failing(w, pos, open_pos, fail) ==
    IF fail = "position" THEN w
    ELSE IF fail = "active" THEN [w EXCEPT !.store.position = pos]
    ELSE store_position(w, pos, open_pos)

StorePosition ==
    \E open_pos \in Snapshots, fail \in StoreFailures :
        /\ store' = store_position_failing(
                        World(bot, store, closed_positions, << >>, next_id),
                        open_pos.pos, open_pos, fail).store
        /\ last_call' = [fn |-> "store_position", open_pos |-> open_pos, fail |-> fail]
        /\ step' = "store"
        /\ UNCHANGED <<live, now, last_pr, next_id, exchange_calls, capVars, bot,
                       closed_positions, bot_result>>

NextStore == StorePosition

SpecStore == Init /\ [][NextStore]_vars

----------------------------------------------------------------------------
(* Both machines in one process, each cycle on its own prices *)

\* for the Bot the entry of the long zone, its first rung and a price below
\* its stop
BothBotPrices == {100000, 101000, 99000}

CapTickBoth ==
    /\ \/ next_id <= MaxPositions
       \/ IsSome(capitulation_state.active_position)
    /\ capitulation_state.current_phase # Complete
    /\ \E price \in LivePrices, ex \in ExchangeOutcomes :
          run_capitulation_cycle(price, ex)

BotTickBoth ==
    /\ bot.current_margin <= MaxCapital * QtyScale
    /\ \E price \in BothBotPrices, inp \in BotInputs :
          /\ run_cycle(price, inp)
          /\ next_id' <= MaxPositions + 1

NextBoth == CapTickBoth \/ BotTickBoth

SpecBoth == Init /\ [][NextBoth]_vars

----------------------------------------------------------------------------
(* The capitulation machine across restarts *)

\* the calendar as a deployment holds it
CalendarLoaded == [file |-> "present", cache |-> "events"]

\* the process stops between two ticks and starts again: Bot::new rebuilds
\* the Bot and the CapitulationState from the store
CapRestart ==
    /\ step = "capitulation"
    /\ \E r \in {bot_new(store, store.zones, cap_store, {}, CalendarLoaded, now)} :
          /\ r.ok
          /\ bot' = r.bot
          /\ capitulation_state' = r.capitulation_state
    /\ step' = "restart"
    /\ UNCHANGED <<live, now, last_pr, next_id, exchange_calls, last_call, cap_store,
                   cap_closed, cap_result, store, closed_positions, bot_result>>

NextCapRestart == CapTickBoth \/ CapRestart

SpecCapRestart == Init /\ [][NextCapRestart]_vars

----------------------------------------------------------------------------
(* The Bot while the zone source moves the short zone below the long zone *)

\* the zone source publishes a short zone found below the long zone
ZoneShift ==
    /\ store.zones = ZonesA
    /\ store' = [store EXCEPT !.zones = ZonesC]
    /\ step' = "zones"
    /\ UNCHANGED <<live, now, last_pr, next_id, exchange_calls, last_call, capVars,
                   bot, closed_positions, bot_result>>

NextBotShift == BotTickBoth \/ ZoneShift

SpecBotShift == Init /\ [][NextBotShift]_vars

----------------------------------------------------------------------------
(* The capitulation machine while the administrative API overrides the capital *)

\* capitals an operator posts to /api/capitulation/capital
OverrideCapitals == {150 * QtyScale, 300 * QtyScale}

\* CapitulationState::update_capital as the API handler calls it: the stored
\* state is loaded, its capital replaced and the result stored; the state the
\* trading loop holds in memory is not touched
update_capital(st, new_capital) == [st EXCEPT !.current_capital = new_capital]

UpdateCapital ==
    /\ \E new_capital \in OverrideCapitals :
          cap_store' = update_capital(cap_store, new_capital)
    /\ step' = "override"
    /\ UNCHANGED <<live, now, last_pr, next_id, exchange_calls, last_call,
                   capitulation_state, cap_closed, cap_result, botVars>>

NextCapOverride == CapTickBoth \/ UpdateCapital

SpecCapOverride == Init /\ [][NextCapOverride]_vars

----------------------------------------------------------------------------
(* The Bot through a tripped loss-count breaker *)

\* a long entry and its stop, a short entry and its stop
BreakerPrices == {100000, 99000, 104000, 105000}

\* one position more than elsewhere: two to trip the breaker, one after it;
\* the run is followed until MaxPositions closes are recorded
BotTickBreaker ==
    /\ bot.current_margin <= MaxCapital * QtyScale
    /\ \E price \in BreakerPrices, inp \in BotInputs :
          /\ run_cycle(price, inp)
          /\ next_id' <= MaxPositions + 2
          /\ Len(closed_positions') <= MaxPositions

NextBotBreaker == BotTickBreaker \/ BotClock

SpecBotBreaker == Init /\ [][NextBotBreaker]_vars

----------------------------------------------------------------------------
(* The Bot while the long zone and the short zone overlap *)

\* the lowest sweep low and the highest sweep high lie 74 USD apart: both
\* zones cover 98926..99000
ZonesD == [long_zones |-> <<LongB>>, short_zones |-> <<ShortB>>]

ZoneOverlap ==
    /\ store.zones = ZonesA
    /\ store' = [store EXCEPT !.zones = ZonesD]
    /\ step' = "zones"
    /\ UNCHANGED <<live, now, last_pr, next_id, exchange_calls, last_call, capVars,
                   bot, closed_positions, bot_result>>

\* a price in both zones and a price beyond the stop of a long entered there
OverlapPrices == {99000, 98000}

BotTickOverlap ==
    /\ bot.current_margin <= MaxCapital * QtyScale
    /\ \E price \in OverlapPrices, inp \in BotInputs :
          /\ run_cycle(price, inp)
          /\ next_id' <= MaxPositions + 1

NextBotOverlap == BotTickOverlap \/ ZoneOverlap \/ BotClock

SpecBotOverlap == Init /\ [][NextBotOverlap]_vars

----------------------------------------------------------------------------
(* Helper functions called directly *)

Positions == {"Long", "Short", "Flat"}
HelperPrices == {76575, 88405, 92435, 99000, 100000, 104000}

\* arguments of build_profit_targets and of compute_pnl
LadderArgs ==
    [entry_price : HelperPrices,
     margin : {50 * QtyScale, 47300000, 365 * QtyScale},
     leverage : {Config.leverage, strategy_leverage},
     ranger_price_difference : {250, Config.ranger_price_difference},
     pos : Positions]
PnlArgs ==
    [pos : Positions, entry_price : HelperPrices, position_size : {0, 10000, 15000},
     exit_price : HelperPrices]

\* Helper::build_profit_targets on one set of arguments
BuildProfitTargets ==
    \E a \in LadderArgs :
        /\ last_call' = [fn |-> "build_profit_targets", args |-> a,
                         out |-> build_profit_targets(a.entry_price, a.margin, a.leverage,
                                                      a.ranger_price_difference, a.pos)]
        /\ step' = "helper"
        /\ UNCHANGED <<live, now, last_pr, next_id, exchange_calls, capVars, botVars>>

\* Helper::compute_pnl on one set of arguments
ComputePnl ==
    \E a \in PnlArgs :
        /\ last_call' = [fn |-> "compute_pnl", args |-> a,
                         out |-> compute_pnl(a.pos, a.entry_price, a.position_size,
                                             a.exit_price)]
        /\ step' = "helper"
        /\ UNCHANGED <<live, now, last_pr, next_id, exchange_calls, capVars, botVars>>

\* Helper::stop_loss_price on one set of arguments, risk_pct in %
StopArgs ==
    [entry_price : HelperPrices,
     margin : {50 * QtyScale, 47300000, 365 * QtyScale},
     leverage : {Config.leverage, strategy_leverage},
     risk_pct : {Config.risk_pct, Config.ranger_risk_pct},
     pos : Positions]

StopLossPrice ==
    \E a \in StopArgs :
        /\ last_call' = [fn |-> "stop_loss_price", args |-> a,
                         out |-> stop_loss_price(a.entry_price, a.margin, a.leverage,
                                                 a.risk_pct, a.pos)]
        /\ step' = "helper"
        /\ UNCHANGED <<live, now, last_pr, next_id, exchange_calls, capVars, botVars>>

NextHelper == BuildProfitTargets \/ ComputePnl \/ StopLossPrice

SpecHelper == Init /\ [][NextHelper]_vars

----------------------------------------------------------------------------
(* ZoneGuard called directly *)

MaxGuardLosses == 3     \* consecutive losses recorded for one zone
MaxGuardNow == 16       \* the short waits stop here

\* the zones whose results are recorded
GuardZones == {LongA, ShortA}

\* a loss, a break-even and a gain, in 10^-6 USD
GuardPnls == {0 - QtyScale, 0, QtyScale}

\* ZoneGuard::record_trade_result for one zone and one result
GuardRecord ==
    \E zone \in GuardZones, pnl \in GuardPnls :
        /\ pnl < 0 => GuardStats(bot, zone).consecutive_losses < MaxGuardLosses
        /\ \E w \in {record_trade_result(
                          World(bot, store, closed_positions, << >>, next_id),
                          from_zone(zone), pnl, now)} :
              /\ bot' = w.bot
              /\ store' = w.store
        /\ last_call' = [fn |-> "record_trade_result", zone_id |-> from_zone(zone),
                         pnl |-> pnl]
        /\ step' = "guard"
        /\ UNCHANGED <<live, now, last_pr, next_id, exchange_calls, capVars,
                       closed_positions, bot_result>>

\* ZoneGuard::get_trade_result for one zone
GuardRead ==
    \E zone \in GuardZones :
        /\ last_call' = [fn |-> "get_trade_result", zone_id |-> from_zone(zone),
                         out |-> get_trade_result(store, from_zone(zone), now)]
        /\ step' = "guard"
        /\ UNCHANGED <<live, now, last_pr, next_id, exchange_calls, capVars, botVars>>

\* time passes: the cooldown window, or long enough for every record written
\* so far to expire
GuardLongWait == UnixEpochHours + cooldown_secs + MaxGuardNow

GuardClock ==
    /\ now < MaxGuardNow
    /\ \E d \in {cooldown_secs, GuardLongWait} :
          /\ d # GuardLongWait => now + d <= MaxGuardNow
          /\ now' = now + d
    /\ step' = "clock"
    /\ UNCHANGED <<live, last_pr, next_id, exchange_calls, last_call, capVars, botVars>>

NextGuard == GuardRecord \/ GuardRead \/ GuardClock

SpecGuard == Init /\ [][NextGuard]_vars

\* what the store answers to a write
StoreOutcomes == {"ok", "error"}

\* ZoneGuard::record_trade_result reached by a cycle while the store answers
\* st: the statistics in memory are updated first; set_ex(...).await.unwrap()
\* then either stores them or panics, and the panic unwinds through
\* run_cycle and the tick loop, which run nothing any more
GuardRecordFaulty ==
    /\ step # "panic"
    /\ \E zone \in GuardZones, pnl \in GuardPnls, st \in StoreOutcomes :
          /\ pnl < 0 => GuardStats(bot, zone).consecutive_losses < MaxGuardLosses
          /\ \E w \in {record_trade_result(
                            World(bot, store, closed_positions, << >>, next_id),
                            from_zone(zone), pnl, now)} :
                /\ bot' = w.bot
                /\ store' = IF st = "ok" THEN w.store ELSE store
          /\ last_call' = [fn |-> "record_trade_result", zone_id |-> from_zone(zone),
                           pnl |-> pnl]
          /\ step' = IF st = "ok" THEN "guard" ELSE "panic"
          /\ UNCHANGED <<live, now, last_pr, next_id, exchange_calls, capVars,
                         closed_positions, bot_result>>

NextGuardFaulty == GuardRecordFaulty \/ GuardClock

SpecGuardFaulty == Init /\ [][NextGuardFaulty]_vars

----------------------------------------------------------------------------
(* Capitulation: price swept downward level by level *)

\* every phase's entry price, stop and take-profit
DownLevels == {trade_params[k][j] : k \in 1..35, j \in 1..3}

\* the first tick is at the highest level; each later tick repeats the
\* price or moves to the next lower level; the exchange answers every call
down_step(price) ==
    IF last_pr = 0 THEN \A q \in DownLevels : q <= price
    ELSE \/ price = last_pr
         \/ price < last_pr /\ \A q \in DownLevels : ~(price < q /\ q < last_pr)

CapTickDown ==
    /\ \/ next_id <= MaxPositions
       \/ IsSome(capitulation_state.active_position)
       \/ capitulation_state.current_phase = Complete
    /\ capitulation_state.current_capital <= MaxCapital * QtyScale
    /\ \E price \in DownLevels, ex \in {"ok", "rejected"} :
          /\ down_step(price)
          /\ run_capitulation_cycle(price, ex)

NextCapDown == CapTickDown \/ AdvanceClock

SpecCapDown == Init /\ [][NextCapDown]_vars

----------------------------------------------------------------------------
(* Properties of the capitulation machine *)

CapActive == capitulation_state.active_position
CapLadder == capitulation_state.partial_profit_targets
CapPhase == capitulation_state.current_phase

\* the stop the cycle applies to the active position
CapActualSl ==
    UnwrapOr(Unwrap(CapActive).sl, trade_params[CapPhase][2])

\* a cycle has appended a closed position
CapClosedOne == step' = "capitulation" /\ Len(cap_closed') = Len(cap_closed) + 1

\* a step that closes the active position on a price at or above its stop
CapStopClose ==
    /\ IsSome(CapActive)
    /\ last_pr' >= CapActualSl
    /\ CapClosedOne

\* a step that closes the active position on a price below its stop and at
\* or below the take-profit of the current phase
CapTakeProfitClose ==
    /\ IsSome(CapActive)
    /\ last_pr' < CapActualSl
    /\ last_pr' <= trade_params[CapPhase][3]
    /\ CapClosedOne

\* the successor of a phase in the numbered sequence Trade1..Trade35, Complete
LinearSuccessor(phase) == IF phase < Complete THEN phase + 1 ELSE Complete

\* C1: a stop-triggered close of the capitulation position closes it in full
\* and sets cooldown_until (to now + 4 h) exactly when all 4 rungs are still
\* in the ladder; with fewer rungs cooldown_until is left empty.
C1_StopCooldownIffNoRungConsumed ==
    [][CapStopClose =>
          /\ capitulation_state'.active_position = None
          /\ capitulation_state'.partial_profit_targets = << >>
          /\ exchange_calls' =
                <<[kind |-> "close", id |-> Unwrap(CapActive).id, side |-> "Short",
                   size |-> Unwrap(Unwrap(CapActive).quantity)]>>
          /\ cap_closed'[1].quantity = Unwrap(CapActive).quantity
          /\ IF Len(CapLadder) = 4
             THEN capitulation_state'.cooldown_until = Some(now + CooldownHours)
             ELSE capitulation_state'.cooldown_until = None]_vars

\* C1 witness: a position stopped out with all 4 rungs present (one closed
\* record, at or above its entry), then, the cooldown having run out, a
\* second position stopped out after a rung was consumed, leaving no cooldown.
C1_Witness ==
    /\ cap_result = "stop_loss"
    /\ capitulation_state.cooldown_until = None
    /\ Len(cap_closed) = 3
    /\ cap_closed[1].id = cap_closed[2].id
    /\ cap_closed[2].exit_price < cap_closed[2].entry_price
    /\ cap_closed[3].id # cap_closed[1].id
    /\ cap_closed[3].exit_price > cap_closed[3].entry_price

\* C2: a take-profit close of the capitulation position closes it in full,
\* adds (entry - price) * remaining quantity to current_capital, empties the
\* ladder and moves current_phase to its linear successor, for every phase.
C2_TakeProfitAdvancesLinearly ==
    [][CapTakeProfitClose =>
          /\ capitulation_state'.active_position = None
          /\ capitulation_state'.partial_profit_targets = << >>
          /\ capitulation_state'.current_capital =
                capitulation_state.current_capital
                + (Unwrap(CapActive).entry_price - last_pr')
                  * Unwrap(Unwrap(CapActive).quantity)
          /\ capitulation_state'.current_phase = LinearSuccessor(CapPhase)]_vars

\* C3: with the price swept downward through every entry and take-profit
\* level from the default state, current_phase only ever moves to its linear
\* successor (so that Complete is reached through every numbered phase).
C3_PhaseFollowsSuccessorOrder ==
    [][capitulation_state'.current_phase \in {CapPhase, LinearSuccessor(CapPhase)}]_vars

\* C4: current_phase never moves to an earlier phase of the sequence.
C4_PhaseNeverMovesBack ==
    [][capitulation_state'.current_phase >= CapPhase]_vars

----------------------------------------------------------------------------
(* Properties of partial fills *)

\* C7: a partial fill of the capitulation position sends a close order whose
\* size is exactly the size_btc of the first remaining rung whose trigger is
\* met (price <= target for the short), not the whole remaining position.
C7_PartialOrderIsRungSize ==
    [][(step' = "capitulation" /\ cap_result' \in {"partial", "partial_error"}) =>
          /\ Len(exchange_calls') = 1
          /\ exchange_calls'[1].kind = "close"
          /\ exchange_calls'[1].size =
                CapLadder[cap_hit_idx(CapLadder, last_pr')].size_btc]_vars

----------------------------------------------------------------------------
(* Properties of the Bot *)

BotLadder == bot.partial_profit_target
InPosition == bot.pos \in {"Long", "Short"}

\* the stop the cycle applies: the position's own sl, else the theoretical one
BotStop ==
    UnwrapOr(bot.open_pos.sl,
             stop_loss_price(bot.open_pos.entry_price, Config.margin, Config.leverage,
                             Config.risk_pct, bot.pos))

\* a cycle of the Bot in Long or Short on a price that crosses the stop
BotStopCross ==
    /\ step' = "bot"
    /\ InPosition
    /\ ssl_hit(last_pr', bot.pos, BotStop)

\* the zones of a side in the zone set a cycle loads
side_zones(side) == IF side = "Long" THEN store.zones.long_zones ELSE store.zones.short_zones

\* an entry order is among the orders of the cycle
EntryOrdered == \E i \in 1..Len(exchange_calls') : exchange_calls'[i].kind = "open"

\* C5: a cycle of the Flat Bot sends an entry order or leaves Flat only if
\* the macro gate allows entry, the loss count is below 2 and the price lies
\* in a zone of the entered side that ZoneGuard reports as not disabled;
\* otherwise no entry order is sent and the Bot stays Flat.
C5_EntryOnlyWhenAllowed ==
    [][(step' = "bot" /\ bot.pos = "Flat" /\ (bot'.pos # "Flat" \/ EntryOrdered)) =>
          /\ allow_entry(now)
          /\ bot.loss_count < 2
          /\ bot'.pos # "Flat"
          /\ \E i \in 1..Len(exchange_calls') :
                /\ exchange_calls'[i].kind = "open"
                /\ exchange_calls'[i].side = bot'.pos
          /\ \E i \in 1..Len(side_zones(bot'.pos)) :
                /\ contains(side_zones(bot'.pos)[i], last_pr')
                /\ ~get_trade_result(store, from_zone(side_zones(bot'.pos)[i]), now).disabled]_vars

\* C5 witness: the Bot, Flat after a closed position, has just entered a
\* short on a price inside the short zone, and the store holds the position
C5_Witness ==
    /\ step = "bot"
    /\ bot_result = "entry"
    /\ bot.pos = "Short"
    /\ store.position = "Short"
    /\ Len(closed_positions) > 0
    /\ contains(ShortA, last_pr)
    /\ Len(exchange_calls) = 1
    /\ exchange_calls[1].kind = "open"

\* C6: every cycle of the Bot in Long or Short whose price crosses the stop
\* closes the full remaining size, appends a ClosedPosition and ends Flat,
\* whatever the macro gate and the loss-count breaker say.
C6_StopCrossAlwaysCloses ==
    [][BotStopCross =>
          /\ bot'.pos = "Flat"
          /\ Len(closed_positions') > Len(closed_positions)
          /\ closed_positions'[Len(closed_positions') - Len(closed_positions)].quantity
                = Some(bot.open_pos.position_size)]_vars

\* C8: a cycle of the Bot that consumes the last rung of the ladder leaves
\* the Bot Flat.
C8_EmptyLadderForcesFlat ==
    [][(step' = "bot" /\ InPosition /\ Len(BotLadder) = 1
        /\ Len(bot'.partial_profit_target) = 0) => bot'.pos = "Flat"]_vars

\* C9: a cycle of the Flat Bot whose entry order fails or is rejected leaves
\* the Bot Flat, in memory and in the store.
C9_FailedEntryLeavesFlat ==
    [][(step' = "bot" /\ bot.pos = "Flat"
        /\ bot_result' \in {"entry_error", "entry_rejected"}) =>
          /\ bot'.pos = "Flat"
          /\ store'.position = "Flat"]_vars

\* the zone a stop-loss close looks up: the first zone of the position's side,
\* in the zone set the cycle loads, that contains the entry price (0 if none)
LossZoneIdx == find_zone(side_zones(bot.pos), bot.open_pos.entry_price)

\* ZoneGuard holds, for the zone, the result of feeding it the pnl
ZoneFed(zone, pnl) ==
    LET before == UnwrapOr(bot.zone_guard[zone], DefaultZoneStats)
        after == bot'.zone_guard[zone]
    IN  /\ IsSome(after)
        /\ Unwrap(after).consecutive_losses =
              IF pnl < 0 THEN before.consecutive_losses + 1 ELSE 0
        /\ Live(store'.zone_stats[zone], now) = after

\* a cycle of the Bot that closes the position on its stop
BotStopClose == BotStopCross /\ bot_result' = "stop_loss"

C11_TakeProfitLeavesZoneGuard ==
    [][(step' = "bot" /\ InPosition /\ bot_result' = "take_profit") =>
          \A z \in AllZones :
              /\ GuardStats(bot', z) = GuardStats(bot, z)
              /\ get_trade_result(store', from_zone(z), now) =
                    get_trade_result(store, from_zone(z), now)]_vars

----------------------------------------------------------------------------
(* Properties of ZoneGuard *)

\* a step that is one call of record_trade_result
Recorded == step' = "guard" /\ last_call'.fn = "record_trade_result"

\* C12: a recorded loss that brings the count of consecutive losses of a
\* zone to exactly max_losses disables the zone with cooldown_until =
\* now + cooldown_secs; a recorded loss that leaves the count below
\* max_losses leaves a zone that was not disabled not disabled; a recorded
\* result that is not a loss resets the count to 0.
C12_MaxLossesDisableZone ==
    [][Recorded =>
          LET zone == last_call'.zone_id
              pnl == last_call'.pnl
              before == GuardStats(bot, zone)
              after == GuardStats(bot', zone)
          IN  /\ pnl >= 0 => after.consecutive_losses = 0
              /\ pnl < 0 => after.consecutive_losses = before.consecutive_losses + 1
              /\ pnl < 0 /\ after.consecutive_losses = max_losses =>
                     /\ after.disabled
                     /\ after.cooldown_until =
                            Some(UnixEpochHours + now + cooldown_secs)
              /\ pnl < 0 /\ after.consecutive_losses < max_losses /\ ~before.disabled =>
                     ~after.disabled
              /\ get_trade_result(store', zone, now) = after]_vars

\* the second consecutive loss of a zone has just been recorded, after a
\* first loss that had left it enabled
C12_Witness ==
    /\ step = "guard"
    /\ last_call.fn = "record_trade_result"
    /\ last_call.pnl < 0
    /\ GuardStats(bot, last_call.zone_id) =
           [consecutive_losses |-> max_losses, disabled |-> TRUE,
            cooldown_until |-> Some(UnixEpochHours + now + cooldown_secs)]
    /\ \E zone \in GuardZones :
           /\ zone # last_call.zone_id
           /\ GuardStats(bot, zone) =
                  [consecutive_losses |-> 1, disabled |-> FALSE, cooldown_until |-> None]

\* C13: a recorded result that is not a loss leaves disabled and
\* cooldown_until of the zone as they were, and no call to ZoneGuard takes a
\* zone's statistics from disabled to not disabled.
C13_DisabledIsNeverCleared ==
    [][/\ Recorded /\ last_call'.pnl >= 0 =>
             /\ GuardStats(bot', last_call'.zone_id).disabled =
                    GuardStats(bot, last_call'.zone_id).disabled
             /\ GuardStats(bot', last_call'.zone_id).cooldown_until =
                    GuardStats(bot, last_call'.zone_id).cooldown_until
       /\ \A zone \in AllZones :
             GuardStats(bot, zone).disabled => GuardStats(bot', zone).disabled]_vars

\* a gain has just been recorded for a disabled zone
C13_Witness ==
    /\ step = "guard"
    /\ last_call.fn = "record_trade_result"
    /\ last_call.pnl > 0
    /\ GuardStats(bot, last_call.zone_id).disabled
    /\ GuardStats(bot, last_call.zone_id).consecutive_losses = 0
    /\ IsSome(GuardStats(bot, last_call.zone_id).cooldown_until)

\* C14: the record persisted by record_trade_result lives for the cooldown
\* window (cooldown_secs) when the statistics carry a cooldown, and for the
\* 12-hour default when they carry none.
C14_RecordLivesForCooldownWindow ==
    [][Recorded =>
          store'.zone_stats[last_call'.zone_id] =
              Expiring(GuardStats(bot', last_call'.zone_id), now,
                       IF IsSome(GuardStats(bot', last_call'.zone_id).cooldown_until)
                       THEN cooldown_secs ELSE StatsDefaultTtl)]_vars

\* the Flat arm of the Bot places an entry order
Enters(result) == result.outcome \in {"entry", "entry_rejected", "entry_error"}

\* C15: get_trade_result changes neither ZoneGuard nor the store, and when
\* the store holds no live record for the zone it returns consecutive_losses
\* 0, disabled false, no cooldown; a zone disabled earlier is then read as
\* enabled and the Flat arm of the Bot enters it at a price inside it.
C15_ExpiredRecordReadsEnabled ==
    [][step' = "guard" /\ last_call'.fn = "get_trade_result" =>
          /\ bot' = bot
          /\ store' = store
          /\ Live(store.zone_stats[last_call'.zone_id], now) = None =>
                /\ last_call'.out = DefaultZoneStats
                /\ \A inp \in BotInputs :
                       Enters(bot_flat(World(bot, store, closed_positions, << >>, next_id),
                                       last_call'.zone_id.high, inp, now))]_vars

\* a zone that ZoneGuard disabled, whose record has expired in the store,
\* has just been read as enabled
C15_Witness ==
    /\ step = "guard"
    /\ last_call.fn = "get_trade_result"
    /\ GuardStats(bot, last_call.zone_id).disabled
    /\ IsSome(store.zone_stats[last_call.zone_id])
    /\ Unwrap(store.zone_stats[last_call.zone_id]).value.disabled
    /\ Live(store.zone_stats[last_call.zone_id], now) = None
    /\ ~last_call.out.disabled

----------------------------------------------------------------------------
(* Properties of the ladder and of the money math *)

\* the last call built a ladder for a Long or a Short
LadderBuilt == last_call.fn = "build_profit_targets" /\ last_call.args.pos # "Flat"

\* size_btc of the rungs of a ladder added up
RECURSIVE LadderSize(_)
LadderSize(targets) ==
    IF targets = << >> THEN 0 ELSE Head(targets).size_btc + LadderSize(Tail(targets))

\* C16: the size_btc of the four rungs of every ladder built for a Long or a
\* Short add up exactly to contract_amount(entry, margin, leverage).
C16_LadderSumsToContractAmount ==
    LadderBuilt =>
        LadderSize(last_call.out) =
            contract_amount(last_call.args.entry_price, last_call.args.margin,
                            last_call.args.leverage)

\* C17: when the Bot has opened a position, the size_btc of the rungs of
\* the ladder built at that entry add up exactly to the quantity of the
\* position, whatever the funding multiplier.
C17_EntryLadderSumsToPosition ==
    [][(step' = "bot" /\ bot_result' = "entry") =>
          /\ LadderSize(bot'.partial_profit_target) = bot'.open_pos.position_size
          /\ bot'.open_pos.quantity = Some(bot'.open_pos.position_size)]_vars

\* C19: while the Bot holds one position, the stop its cycle applies (the
\* position's sl, else the theoretical stop) is never lowered for a Long and
\* never raised for a Short by a cycle that consumes a rung.
C19_StopOnlyRatchets ==
    [][(/\ step' = "bot"
        /\ InPosition
        /\ bot'.pos = bot.pos
        /\ bot'.open_pos.id = bot.open_pos.id
        /\ Len(bot'.partial_profit_target) < Len(BotLadder)) =>
          IF bot.pos = "Long" THEN BotStop' >= BotStop ELSE BotStop' <= BotStop]_vars

\* C18: for a Long or a Short, build_profit_targets returns exactly 4 rungs;
\* rung i (counted from 0) has target entry + (i+1)*step for a Long and
\* entry - (i+1)*step for a Short, the fractions are 20 %, 30 %, 30 %, 20 %
\* and the stops are entry, target 0, target 1 and none; entry 92435 with
\* step 250, Short, gives targets 92185, 91935, 91685, 91435 and stops
\* 92435, 92185, 91935, none.
C18_LadderShape ==
    LadderBuilt =>
        LET a == last_call.args
            out == last_call.out
            sign == IF a.pos = "Long" THEN 1 ELSE 0 - 1
        IN  /\ Len(out) = 4
            /\ \A i \in 1..4 :
                   out[i].target_price = a.entry_price + sign * i * a.ranger_price_difference
            /\ [i \in 1..4 |-> out[i].fraction] = <<20, 30, 30, 20>>
            /\ [i \in 1..4 |-> out[i].sl] =
                   <<Some(a.entry_price), Some(out[1].target_price),
                     Some(out[2].target_price), None>>
            /\ (a.entry_price = 92435 /\ a.ranger_price_difference = 250 /\ a.pos = "Short") =>
                   /\ [i \in 1..4 |-> out[i].target_price] = <<92185, 91935, 91685, 91435>>
                   /\ [i \in 1..4 |-> out[i].sl] =
                          <<Some(92435), Some(92185), Some(91935), None>>

\* the ladder of the example has been built
C18_Witness ==
    /\ LadderBuilt
    /\ last_call.args.entry_price = 92435
    /\ last_call.args.ranger_price_difference = 250
    /\ last_call.args.pos = "Short"
    /\ Len(last_call.out) = 4
    /\ last_call.out[4].target_price = 91435

\* C20: compute_pnl returns (exit - entry) * qty for a Long and
\* (entry - exit) * qty for a Short when that signed price difference is
\* positive, 0 for Flat, and 0, never a negative number, when the signed
\* price difference is zero or negative.
C20_PnlIsClampedAtZero ==
    last_call.fn = "compute_pnl" =>
        LET a == last_call.args
            diff == IF a.pos = "Long" THEN a.exit_price - a.entry_price
                    ELSE a.entry_price - a.exit_price
        IN  /\ a.pos = "Flat" => last_call.out = 0
            /\ a.pos # "Flat" /\ diff > 0 => last_call.out = diff * a.position_size
            /\ a.pos # "Flat" /\ diff <= 0 => last_call.out = 0
            /\ last_call.out >= 0

\* a losing Long of a positive size has been evaluated to zero
C20_Witness ==
    /\ last_call.fn = "compute_pnl"
    /\ last_call.args.pos = "Long"
    /\ last_call.args.exit_price < last_call.args.entry_price
    /\ last_call.args.position_size > 0
    /\ last_call.out = 0

\* C21: stop_loss_price is entry - delta for a Long and entry + delta for a
\* Short, where delta = (margin * risk_pct / (margin * leverage)) * entry,
\* here in whole USD: delta is the whole part of that quotient; entry 100000,
\* margin 50, leverage 20, risk 5 %, Long gives 99750.
C21_StopLossPriceFormula ==
    (last_call.fn = "stop_loss_price" /\ last_call.args.pos # "Flat") =>
        LET a == last_call.args
            delta == IF a.pos = "Long" THEN a.entry_price - last_call.out
                     ELSE last_call.out - a.entry_price
            \* desired_loss * entry and notional, both in units of margin / 100
            loss_entry == a.risk_pct * a.entry_price
            notional == a.leverage * 100
        IN  /\ delta * notional <= loss_entry
            /\ loss_entry < (delta + 1) * notional
            /\ (a.entry_price = 100000 /\ a.margin = 50 * QtyScale /\ a.leverage = 20
                    /\ a.risk_pct = 5 /\ a.pos = "Long") => last_call.out = 99750

\* the example of the claim has been evaluated
C21_Witness ==
    /\ last_call.fn = "stop_loss_price"
    /\ last_call.args = [entry_price |-> 100000, margin |-> 50 * QtyScale,
                         leverage |-> 20, risk_pct |-> 5, pos |-> "Long"]
    /\ last_call.out = 99750

----------------------------------------------------------------------------
(* Properties of the gates of the capitulation cycle *)

\* C22: once current_phase is Complete, a cycle on any price changes no
\* field of the CapitulationState nor its stored copy, closes nothing and
\* sends no order, and no step leaves Complete.
C22_CompleteIsFinal ==
    [][CapPhase = Complete =>
          /\ capitulation_state'.current_phase = Complete
          /\ step' = "capitulation" =>
                /\ capitulation_state' = capitulation_state
                /\ cap_store' = capitulation_state
                /\ cap_closed' = cap_closed
                /\ exchange_calls' = << >>]_vars

\* a cycle has run on a price at an entry level while Complete
C22_Witness ==
    /\ step = "capitulation"
    /\ cap_result = "complete"
    /\ CapPhase = Complete
    /\ \E i \in 1..Len(all_phases) :
           entry_match(last_pr, trade_params[all_phases[i]][1])

\* C23: a cycle that runs while now < cooldown_until changes no state and
\* sends no order; a cycle that runs at or after cooldown_until clears the
\* field and evaluates the entries in that same cycle.
C23_CooldownBlocksThenClears ==
    [][(step' = "capitulation" /\ IsSome(capitulation_state.cooldown_until)) =>
          IF now < Unwrap(capitulation_state.cooldown_until)
          THEN /\ capitulation_state' = capitulation_state
               /\ cap_store' = capitulation_state
               /\ cap_closed' = cap_closed
               /\ exchange_calls' = << >>
          ELSE /\ capitulation_state'.cooldown_until = None
               /\ cap_result' \in {"entry", "entry_error", "no_entry"}]_vars

\* the last position was stopped at the stop it was opened with, which set
\* the cooldown, and a later cycle has entered again with the field cleared
C23_Witness ==
    /\ step = "capitulation"
    /\ cap_result = "entry"
    /\ capitulation_state.cooldown_until = None
    /\ now >= CooldownHours
    /\ Len(cap_closed) >= 1
    /\ \E i \in 1..Len(all_phases) :
           /\ cap_closed[1].sl = Some(trade_params[all_phases[i]][2])
           /\ cap_closed[1].exit_price >= trade_params[all_phases[i]][2]

\* C24: the margin of every position the capitulation machine opens is
\* above the floor of 60: a current_capital at or below the floor when the
\* entry is matched is first reset to 200, and the position and its order
\* are sized from the capital after that reset.
C24_EntrySizedAboveFloor ==
    [][(step' = "capitulation" /\ cap_result' = "entry") =>
          /\ Unwrap(CapActive').margin = Some(capitulation_state'.current_capital)
          /\ capitulation_state'.current_capital > CapFloor
          /\ capitulation_state.current_capital <= CapFloor =>
                capitulation_state'.current_capital = CapStart
          /\ capitulation_state.current_capital > CapFloor =>
                capitulation_state'.current_capital = capitulation_state.current_capital
          /\ Unwrap(CapActive').quantity =
                Some(contract_amount(last_pr', capitulation_state'.current_capital,
                                     strategy_leverage))
          /\ exchange_calls'[1].size = Unwrap(Unwrap(CapActive').quantity)]_vars

\* the only closed position lost more than the capital above the floor, and
\* the next entry has been sized from the starting capital
C24_Witness ==
    /\ step = "capitulation"
    /\ cap_result = "entry"
    /\ Len(cap_closed) = 1
    /\ CapStart + cap_closed[1].pnl <= CapFloor
    /\ Unwrap(CapActive).margin = Some(CapStart)

----------------------------------------------------------------------------
(* Properties of the supervising loop *)

\* the step is one Ok(ticker) of the stream whose price is positive
LiveCycle == live.at = "stream" /\ step' = "capitulation"

\* C25: on every tick that carries a valid price the loop runs the
\* Capitulation cycle and then the Bot cycle on that same price, one after
\* the other: after the tick the Capitulation side is the outcome of its
\* cycle on the price and the Bot side is the outcome of Bot::run_cycle on it.
C25_TickRunsBothCycles ==
    [][LiveCycle =>
          /\ last_pr' > 0
          /\ \E ex \in ExchangeOutcomes :
                capitulation_state' =
                    cap_run_cycle(capitulation_state, last_pr', now, next_id, ex).state
          /\ \E inp \in BotInputs :
                LET r == bot_run_cycle(World(bot, store, closed_positions, << >>, next_id'),
                                       last_pr', inp, now)
                IN  /\ bot' = r.world.bot
                    /\ store' = r.world.store
                    /\ closed_positions' = r.world.closed]_vars

\* C26: the reconnect delay starts at 1 s, every wait lasts the current
\* delay and doubles it up to 64 s, a failed subscription keeps the delay, a
\* successful one brings it back to 1 s, and whatever happened the loop has
\* a next step
C26_ReconnectBackoff ==
    /\ live.backoff_secs = 1
    /\ [](/\ live.backoff_secs \in 1..64
          /\ live.slept <= 64
          /\ ENABLED (LiveSubscribe \/ LiveStreamEnd \/ LiveSleep))
    /\ [][/\ step' = "sleep" =>
                /\ live'.slept = live.backoff_secs
                /\ live'.backoff_secs =
                       IF live.backoff_secs < 64 THEN 2 * live.backoff_secs ELSE 64
                /\ live'.at = "subscribe"
          /\ step' = "subscribe" /\ live'.at = "stream" => live'.backoff_secs = 1
          /\ step' = "subscribe" /\ live'.at # "stream" =>
                /\ live'.backoff_secs = live.backoff_secs
                /\ live'.at = "sleep"
          /\ step' = "stream_end" =>
                /\ live'.backoff_secs = 1
                /\ live'.at = "sleep"]_vars

\* seven subscriptions in a row failed: the loop has just waited 64 s and
\* the delay stays at 64 s
C26_Witness ==
    /\ step = "sleep"
    /\ live.slept = 64
    /\ live.backoff_secs = 64

\* C27: a failure while a tick is processed, an exchange or a store error
\* inside a cycle, is logged and skipped, so that the tick loop never
\* terminates because of it: the thread of the loop never panics and can
\* always process another result.
C27_FailureNeverEndsTheLoop ==
    /\ step # "panic"
    /\ ENABLED GuardRecordFaulty

----------------------------------------------------------------------------
(* Properties of the construction of the Bot *)

\* C28: on startup every record that is missing or cannot be read is
\* replaced by its default (Flat position, default zones, zero loss count,
\* default capitulation state), every other record is taken from the store,
\* and the construction of the Bot succeeds.
C28_StartupFallsBackToDefaults ==
    [][step = "start" =>
          LET unreadable == last_call'.unreadable
          IN  /\ step' = "new"
              /\ bot'.pos = IF "position" \in unreadable THEN "Flat" ELSE store.position
              /\ bot'.zones = IF "zones" \in unreadable THEN DefaultZones ELSE store.zones
              /\ bot'.loss_count =
                     IF "loss_count" \in unreadable \/ store.loss_count = None THEN 0
                     ELSE Unwrap(store.loss_count).value
              /\ capitulation_state' =
                     IF "capitulation" \in unreadable THEN DefaultCapitulationState
                     ELSE cap_store]_vars

----------------------------------------------------------------------------
(* Properties of the cycles fed with the "no price" value *)

\* C29: the "no price" value never takes part in sizing or PnL: a cycle of
\* either machine that receives it sends no order and changes neither a
\* position nor a ladder nor a capital, in memory or in the store.
C29_SentinelChangesNothing ==
    [][last_pr' = NoPrice =>
          /\ exchange_calls' = << >>
          /\ capitulation_state' = capitulation_state
          /\ cap_store' = cap_store
          /\ cap_closed' = cap_closed
          /\ bot' = bot
          /\ store' = store
          /\ closed_positions' = closed_positions]_vars

----------------------------------------------------------------------------
(* Properties of the persisted pair *)

\* C30: Position and OpenPosition are written as one unit: wherever a call
\* of store_position ends, the store holds either the new Position with the
\* new snapshot or the Position and the snapshot it held before.
C30_PairWrittenAsOneUnit ==
    [][step' = "store" =>
          \/ /\ store'.position = last_call'.open_pos.pos
             /\ store'.active = Some(last_call'.open_pos)
          \/ /\ store'.position = store.position
             /\ store'.active = store.active]_vars

----------------------------------------------------------------------------
(* Properties of the persisted capitulation state *)

----------------------------------------------------------------------------
(* Properties of the two machines side by side *)

\* C32: a capitulation cycle leaves the Bot's fields, its store keys and its
\* list of closed positions as they were, and a Bot cycle leaves the
\* CapitulationState, its snapshot and the capitulation list as they were.
C32_MachinesKeepApart ==
    [][/\ step' = "capitulation" =>
             /\ bot' = bot
             /\ store' = store
             /\ closed_positions' = closed_positions
       /\ step' = "bot" =>
             /\ capitulation_state' = capitulation_state
             /\ cap_store' = cap_store
             /\ cap_closed' = cap_closed]_vars

\* both machines hold a position and both have closed a part of it: the
\* capitulation cycle has just run
C32_Witness ==
    /\ step = "capitulation"
    /\ cap_result = "partial"
    /\ Len(cap_closed) > 0
    /\ bot.pos = "Long"
    /\ Len(closed_positions) > 0
    /\ IsSome(capitulation_state.active_position)

----------------------------------------------------------------------------
(* Properties of the full close of a Bot position *)

\* C33: a Bot cycle closes the open position in full at most once: of the
\* records it appends to the closed list at most one carries the id and the
\* whole size of the position that was open when the cycle began.
C33_AtMostOneFullClose ==
    [][step' = "bot" =>
          Cardinality({i \in 1..(Len(closed_positions') - Len(closed_positions)) :
                          /\ closed_positions'[i].id = bot.open_pos.id
                          /\ closed_positions'[i].quantity =
                                 Some(bot.open_pos.position_size)}) <= 1]_vars

\* C40: every closed position the Bot has recorded carries the exit fee of its
\* closed size at the taker rate, and its pnl after fees is its pnl less
\* that fee.
C40_PnlAfterFeesIsPnlLessFee ==
    \A i \in 1..Len(closed_positions) :
        /\ closed_positions[i].pnl_after_fees =
               closed_positions[i].pnl - closed_positions[i].exit_fee
        /\ \E rate \in TakerFeeRates :
               closed_positions[i].exit_fee =
                   fee_on_notional(closed_positions[i].exit_price,
                                   Unwrap(closed_positions[i].quantity), rate)

\* C34: a Bot cycle that goes Flat on the stop sends the exchange a close order
\* for the whole size of the position it closes.
C34_StopCloseSendsOrder ==
    [][step' = "bot" /\ bot.pos # "Flat" /\ bot_result' = "stop_loss" =>
          \E i \in 1..Len(exchange_calls') :
              /\ exchange_calls'[i].kind = "close"
              /\ exchange_calls'[i].id = bot.open_pos.id
              /\ exchange_calls'[i].size = bot.open_pos.position_size]_vars

----------------------------------------------------------------------------
(* Properties of the capitulation machine under exchange failures and overrides *)

\* C35: a capitulation cycle in which an exchange call fails leaves the
\* CapitulationState as it was before the cycle.
C35_FailedCallChangesNothing ==
    [][step' = "capitulation"
         /\ cap_result' \in {"entry_error", "stop_error", "tp_error", "partial_error"}
       => capitulation_state' = capitulation_state]_vars

\* C36: a capital written by the administrative override is the capital of the
\* next capitulation cycle: a cycle that enters sizes the position from it,
\* and a cycle that realises nothing leaves it in the store.
C36_OverrideSurvivesTheTick ==
    [][step = "override" /\ step' = "capitulation" =>
          /\ cap_result' = "entry" =>
                 capitulation_state'.active_position[1].margin =
                     Some(cap_store.current_capital)
          /\ capitulation_state'.current_capital = capitulation_state.current_capital =>
                 cap_store'.current_capital = cap_store.current_capital]_vars


\* the loss count the store holds has run out
LossCountExpired == ~IsSome(Live(store.loss_count, now))


\* C39: a cycle of the Flat Bot with the macro gate open, a loss count below
\* 2 and a price inside a zone that ZoneGuard reports as not disabled places
\* an entry on the side of such a zone.
C39_EntryInEnabledZone ==
    [][(/\ step' = "bot" /\ bot.pos = "Flat" /\ allow_entry(now) /\ bot.loss_count < 2
        /\ last_pr' # NoPrice
        /\ \E side \in {"Long", "Short"} : \E k \in 1..Len(side_zones(side)) :
               /\ contains(side_zones(side)[k], last_pr')
               /\ ~get_trade_result(store, from_zone(side_zones(side)[k]), now).disabled)
       => /\ bot_result' \in {"entry", "entry_rejected", "entry_error"}
          /\ \E i \in 1..Len(side_zones(bot'.pos)) :
                /\ contains(side_zones(bot'.pos)[i], last_pr')
                /\ ~get_trade_result(store, from_zone(side_zones(bot'.pos)[i]), now).disabled]_vars

----------------------------------------------------------------------------
(* Properties of the guards over time *)

\* C37: a result recorded for a zone whose stats record has expired is the
\* first result since the expiry, so with max_losses above one it does not
\* persist the zone as disabled.
C37_NoDisableFromExpiredStats ==
    [][step' = "guard" /\ max_losses > 1
         /\ ~IsSome(Live(store.zone_stats[last_call'.zone_id], now))
       => ~get_trade_result(store', last_call'.zone_id, now).disabled]_vars

\* C38: a counted loss is persisted with the count for 12 hours from the
\* loss; while the count is 2 or more a cycle sends no entry and keeps the
\* position state; the blocked cycle keeps the count while the persisted count
\* lives and reloads it as 0 once that has run out, at the latest 12 hours
\* after the last counted loss.
C38_BreakerExpires ==
    /\ [](bot.loss_count >= 2 =>
             /\ IsSome(store.loss_count)
             /\ Unwrap(store.loss_count).value = bot.loss_count
             /\ Unwrap(store.loss_count).expires <= now + LossCountTtl)
    /\ [][step' = "bot" =>
             /\ bot'.loss_count > bot.loss_count =>
                    store'.loss_count = Expiring(bot'.loss_count, now, LossCountTtl)
             /\ bot.loss_count >= 2 =>
                    /\ ~EntryOrdered
                    /\ bot'.pos = bot.pos
                    /\ bot_result' = "loss_blocked" =>
                           bot'.loss_count = IF LossCountExpired THEN 0
                                             ELSE bot.loss_count]_vars

\* C38 witness: two losses tripped the breaker, the persisted count of 2 ran
\* out, and the Bot has entered again with a count of 0
C38_Witness ==
    /\ step = "bot"
    /\ bot_result = "entry"
    /\ bot.pos # "Flat"
    /\ bot.loss_count = 0
    /\ Len(closed_positions) = 2
    /\ IsSome(store.loss_count)
    /\ Unwrap(store.loss_count).value = 2
    /\ LossCountExpired

====
